---- MODULE Spec2Model ----
(***************************************************************************)
(* Verification model of the adns authoritative DNS server.                *)
(*                                                                         *)
(* Part I  (SpecZone)   : the zone record list and the ZoneUpdateAction    *)
(*                        semantics of adns-zone/src/updates.rs.           *)
(* Part II (SpecServer) : the request pipeline of adns-server (respond,    *)
(*                        respond_update), the DynFile provider task, the  *)
(*                        zone hot-swap task and the UDP / TCP handlers.   *)
(***************************************************************************)
EXTENDS Integers, Sequences, FiniteSets, TLC

\* ------------------------------------------------------------------------
\* Bounds of the model
\* ------------------------------------------------------------------------
MaxRecords == 2
MaxSerial == 2

\* ------------------------------------------------------------------------
\* Names (adns-proto/src/name.rs)
\* ------------------------------------------------------------------------
\* to_ascii_lowercase on the label alphabet of the model
FoldLabel(l) ==
  CASE l = "A" -> "a"
    [] l = "COM" -> "com"
    [] OTHER -> l

Fold(n) == [i \in DOMAIN n |-> FoldLabel(n[i])]

\* impl PartialEq for Name: full.eq_ignore_ascii_case(other.full)
NameEq(a, b) == Fold(a) = Fold(b)

ApexName == <<"com">>
SubName == <<"a", "com">>
SubNameUpper == <<"A", "com">>

ZoneNames == {ApexName, SubName, SubNameUpper}

\* ------------------------------------------------------------------------
\* Records (adns-proto/src/record.rs, types/data.rs)
\* ------------------------------------------------------------------------
MinTtl == 60

\* Zone::default_ttl: the TTL of records loaded without one
SeedTtl == 300

Types == {"A", "NS", "CNAME", "SOA"}

\* TypeData: a typed payload (other = FALSE; val is the address / target /
\* SOA serial) or TypeData::Other(type, bytes) (other = TRUE; val = 0 is the
\* empty byte string)
TypeData(t, v) == [dtype |-> t, other |-> FALSE, val |-> v]
OtherData(t) == [dtype |-> t, other |-> TRUE, val |-> 0]

dns_type(data) == data.dtype

Record(n, ttl, data) ==
  [name |-> n, type |-> dns_type(data), class |-> "IN", ttl |-> ttl, data |-> data]

Max(a, b) == IF a >= b THEN a ELSE b

\* the least element of a non-empty set of indices, 0 for the empty set
\* (Iterator::find / the first match of a filtered iteration)
FirstOf(S) == IF S = {} THEN 0 ELSE CHOOSE i \in S : \A j \in S : i <= j

\* ------------------------------------------------------------------------
\* ZoneUpdateAction::apply_to (adns-zone/src/updates.rs)
\* ------------------------------------------------------------------------
DeleteRecordsAction(n, t) == [kind |-> "DeleteRecords", name |-> n, type |-> t]
DeleteRecordAction(n, d) == [kind |-> "DeleteRecord", name |-> n, data |-> d]
AddRecordAction(r) == [kind |-> "AddRecord", record |-> r]

\* DeleteRecords(name, None)
ApplyDeleteAll(zone_name, records, name) ==
  IF NameEq(name, zone_name)
  THEN SelectSeq(records, LAMBDA r :
         ~NameEq(r.name, name) \/ r.type = "SOA" \/ r.type = "NS")
  ELSE SelectSeq(records, LAMBDA r : ~NameEq(r.name, name))

\* DeleteRecords(name, Some(type_))
ApplyDeleteType(zone_name, records, name, type_) ==
  IF NameEq(name, zone_name) /\ (type_ = "SOA" \/ type_ = "NS")
  THEN records
  ELSE SelectSeq(records, LAMBDA r : ~NameEq(r.name, name) \/ r.type # type_)

\* zone.records.iter().filter(|x| x.type_ == Type::NS).count()
NsCount(records) == Len(SelectSeq(records, LAMBDA r : r.type = "NS"))

\* the guard of DeleteRecord that refuses the deletion
DeleteRecordRefused(zone_name, records, name, data) ==
  NameEq(name, zone_name)
    /\ (dns_type(data) = "SOA"
        \/ (dns_type(data) = "NS" /\ NsCount(records) <= 1))

\* DeleteRecord(name, data)
ApplyDeleteRecord(zone_name, records, name, data) ==
  IF DeleteRecordRefused(zone_name, records, name, data)
  THEN records
  ELSE SelectSeq(records, LAMBDA r :
         ~NameEq(r.name, name) \/ r.type # dns_type(data) \/ r.data # data)

\* the CNAME exclusivity gate of AddRecord (TRUE: the action returns early)
CnameRejectedOnlyForCname(records, record) ==
  /\ record.type = "CNAME"
  /\ (Len(records) > 1 \/ (Len(records) >= 1 /\ records[1].type # "CNAME"))

CnameRejected(records, record) ==
  IF record.type = "CNAME"
  THEN Len(records) > 1 \/ (Len(records) >= 1 /\ records[1].type # "CNAME")
  ELSE \E i \in 1..Len(records) : records[i].type = "CNAME"

\* the SOA serial gate of AddRecord (TRUE: the action returns early)
SoaRejectedNoSerialCheck(records, record) ==
  record.type = "SOA" /\ record.data.other

SoaRejected(records, record) ==
  /\ record.type = "SOA"
  /\ \/ record.data.other
     \/ LET i == FirstOf({k \in 1..Len(records) :
                   NameEq(records[k].name, record.name) /\ records[k].type = "SOA"})
        IN /\ i # 0
           /\ ~records[i].data.other
           /\ records[i].data.val > record.data.val

\* AddRecord(record) that pushes the record whatever is stored
ApplyAddRecordPushes(zone_name, records, rec) ==
  IF CnameRejected(records, [rec EXCEPT !.ttl = Max(rec.ttl, MinTtl)]) THEN records
  ELSE IF SoaRejected(records, [rec EXCEPT !.ttl = Max(rec.ttl, MinTtl)]) THEN records
  ELSE Append(records, [rec EXCEPT !.ttl = Max(rec.ttl, MinTtl)])

\* AddRecord(record)
ApplyAddRecord(zone_name, records, rec) ==
  LET record == [rec EXCEPT !.ttl = Max(rec.ttl, MinTtl)]
      i == FirstOf({k \in 1..Len(records) :
             /\ NameEq(records[k].name, record.name)
             /\ records[k].type = record.type
             /\ (record.type = "CNAME" \/ record.type = "SOA"
                   \/ record.data = records[k].data)})
  IN IF CnameRejected(records, record) THEN records
     ELSE IF SoaRejected(records, record) THEN records
     ELSE IF i # 0 THEN [records EXCEPT ![i] = record]
     ELSE Append(records, record)

ApplyAction(zone_name, records, action) ==
  CASE action.kind = "DeleteRecords" /\ action.type = "None" ->
         ApplyDeleteAll(zone_name, records, action.name)
    [] action.kind = "DeleteRecords" /\ action.type # "None" ->
         ApplyDeleteType(zone_name, records, action.name, action.type)
    [] action.kind = "DeleteRecord" ->
         ApplyDeleteRecord(zone_name, records, action.name, action.data)
    [] action.kind = "AddRecord" ->
         ApplyAddRecord(zone_name, records, action.record)

\* ------------------------------------------------------------------------
\* Name patterns (adns-proto/src/name.rs)
\* ------------------------------------------------------------------------
EmptyName == << >>
ZonePrefixRoot == <<"**">>

Min(a, b) == IF a <= b THEN a ELSE b

\* the last k labels of both names agree, ignoring ASCII case; a label "*" of
\* the pattern agrees with anything when wild is set
TailsAgree(pattern, other, k, wild) ==
  \A i \in 0..(k - 1) :
    LET ours == pattern[Len(pattern) - i]
        theirs == other[Len(other) - i]
    IN (wild /\ ours = "*") \/ FoldLabel(ours) = FoldLabel(theirs)

\* Name::ends_with
ends_with(self, other) ==
  IF NameEq(self, other) THEN TRUE
  ELSE IF Len(self) < Len(other) THEN FALSE
  ELSE TailsAgree(other, self, Len(other), FALSE)

\* Name::contains with the prefix "*+" treated as the prefix "**"
containsAnyTail(self, other) ==
  IF NameEq(self, other) THEN TRUE
  ELSE IF Len(self) > 0 /\ self[1] \in {"**", "*+"}
    THEN Len(other) >= Len(self) - 1 /\ TailsAgree(Tail(self), other, Len(self) - 1, TRUE)
  ELSE Len(other) = Len(self) /\ TailsAgree(self, other, Len(self), TRUE)

\* Name::contains (self is the pattern)
contains(self, other) ==
  IF NameEq(self, other) THEN TRUE
  ELSE IF Len(self) > 0 /\ self[1] = "**"
    THEN Len(other) >= Len(self) - 1 /\ TailsAgree(Tail(self), other, Len(self) - 1, TRUE)
  ELSE IF Len(self) > 0 /\ self[1] = "*+"
    THEN Len(other) >= Len(self) /\ TailsAgree(Tail(self), other, Len(self) - 1, TRUE)
  ELSE Len(other) = Len(self) /\ TailsAgree(self, other, Len(self), TRUE)

\* ------------------------------------------------------------------------
\* Zone tree (adns-zone/src/lib.rs)
\* ------------------------------------------------------------------------
\* a zone level: Zone / SubZone; soa = 0 stands for None
Level(recs, soa, ns, auth) ==
  [records |-> recs, soa |-> soa, nameservers |-> ns, authoritative |-> auth]

\* Zone::default()
DefaultLevel == Level(<< >>, 0, << >>, FALSE)

\* the records of the zone an UPDATE names (do_respond_update lines 44-55):
\* the root zone for "", the subzone when it exists, else an empty zone
UpdateZoneRecords(root, name) ==
  IF name = EmptyName THEN root.records
  ELSE IF Fold(name) \in DOMAIN root.zones THEN root.zones[Fold(name)].records
  ELSE << >>

RECURSIVE ApplyActions(_, _, _)
ApplyActions(name, recs, actions) ==
  IF actions = << >> THEN recs
  ELSE ApplyActions(name, ApplyAction(name, recs, Head(actions)), Tail(actions))

\* ZoneUpdate::apply_to
ApplyUpdate(root, update) ==
  LET name == update.zone_name
      key == Fold(name)
  IN IF name = EmptyName
     THEN [root EXCEPT !.records = ApplyActions(name, @, update.actions)]
     ELSE LET level == IF key \in DOMAIN root.zones THEN root.zones[key] ELSE DefaultLevel
              new == [level EXCEPT !.records = ApplyActions(name, @, update.actions)]
          IN [root EXCEPT !.zones =
                [k \in DOMAIN root.zones \cup {key} |-> IF k = key THEN new ELSE root.zones[k]]]

Question(n, t, c) == [name |-> n, type |-> t, class |-> c]

\* the records of level `self` that answer the question (the loop of
\* Zone::answer over self.records), owner name rewritten to the queried name
MatchingRecords(self, question) ==
  LET hit == SelectSeq(self.records, LAMBDA r :
               contains(r.name, question.name) /\ question.type = r.type)
  IN [i \in 1..Len(hit) |-> [hit[i] EXCEPT !.name = question.name]]

\* the name counts as seen only through a record of the queried type
NameSeenOfType(self, question) ==
  \E i \in 1..Len(self.records) :
    contains(self.records[i].name, question.name) /\ question.type = self.records[i].type

NameSeen(self, question) ==
  \E i \in 1..Len(self.records) : contains(self.records[i].name, question.name)

\* Zone::answer on one level, without the recursion into subzones:
\* [answers, seen, done]; done: the SOA / NS apex rule returned early
AnswerLevel(self, parent, zname, question) ==
  IF NameEq(question.name, zname) /\ question.type = "SOA"
  THEN LET soa == IF self.soa # 0 THEN self.soa ELSE parent.soa
       IN [answers |-> IF soa # 0 THEN << Record(zname, 60, TypeData("SOA", soa)) >> ELSE << >>,
           seen |-> TRUE, done |-> TRUE]
  ELSE IF NameEq(question.name, zname) /\ question.type = "NS"
  THEN LET ns == IF self.nameservers = << >> THEN parent.nameservers ELSE self.nameservers
       IN [answers |-> [i \in 1..Len(ns) |-> Record(zname, 3600, TypeData("NS", ns[i]))],
           seen |-> TRUE, done |-> TRUE]
  ELSE [answers |-> MatchingRecords(self, question),
        seen |-> NameSeen(self, question), done |-> FALSE]

\* the subzone apexes in IndexMap order
RECURSIVE SetToSeq(_)
SetToSeq(S) ==
  IF S = {} THEN << >>
  ELSE LET x == CHOOSE y \in S : TRUE IN << x >> \o SetToSeq(S \ {x})

\* Zone::answer lines 236-242: the answer of a subzone joined to the others
JoinSub(acc, sub, authoritative) ==
  [answers |-> acc.answers \o sub.answers, seen |-> acc.seen \/ sub.seen,
   is_authoritative |-> authoritative]

RECURSIVE AnswerSubzones(_, _, _, _)
AnswerSubzones(root, apexes, question, acc) ==
  IF apexes = << >> THEN acc
  ELSE IF ~ends_with(question.name, Head(apexes))
  THEN AnswerSubzones(root, Tail(apexes), question, acc)
  ELSE AnswerSubzones(root, Tail(apexes), question,
         JoinSub(acc, AnswerLevel(root.zones[Head(apexes)], root, Head(apexes), question),
                 root.zones[Head(apexes)].authoritative))

AnswerFrom(root, question, top) ==
  IF top.done
  THEN [answers |-> top.answers, seen |-> top.seen, is_authoritative |-> root.authoritative]
  ELSE AnswerSubzones(root, SetToSeq(DOMAIN root.zones), question,
         [answers |-> top.answers, seen |-> top.seen,
          is_authoritative |-> root.authoritative])

\* Zone::answer(None, "", question, response) on the root zone:
\* [answers, seen (AnswerState::DomainSeen), is_authoritative]
Answer(root, question) ==
  AnswerFrom(root, question,
    AnswerLevel(root, Level(<< >>, 0, << >>, FALSE), EmptyName, question))

VersionBind == <<"version", "bind">>

\* QueryContext::query lines 41-51: the retry of an unanswered A question
Retry(first, retry) ==
  [answers |-> retry.answers, seen |-> first.seen \/ retry.seen,
   is_authoritative |-> retry.is_authoritative]

\* QueryContext::query without the retry
QueryFromNoRetry(root, question, first) == first

QueryFrom(root, question, first) ==
  IF question.type = "A" /\ first.answers = << >>
  THEN Retry(first, Answer(root, [question EXCEPT !.type = "CNAME"]))
  ELSE first

\* QueryContext::query: the answers of one lookup, with the A -> CNAME retry
Query(root, question) ==
  IF NameEq(question.name, VersionBind) /\ question.type = "TXT"
  THEN [answers |-> << Record(VersionBind, 3600, TypeData("TXT", 0)) >>,
        seen |-> TRUE, is_authoritative |-> FALSE]
  ELSE QueryFrom(root, question, Answer(root, question))

\* ------------------------------------------------------------------------
\* Query answering (adns-server/src/server/respond.rs)
\* ------------------------------------------------------------------------
\* the owner name a CNAME / MX / SRV payload points at
HopName == <<"b", "com">>

DataName(v) ==
  CASE v = 1 -> ApexName
    [] v = 8 -> HopName
    [] OTHER -> SubName

\* the answer of one lookup joined to those before it
Gather(acc, a) ==
  [answers |-> acc.answers \o a.answers, aa |-> acc.aa \/ a.is_authoritative,
   seen |-> acc.seen \/ a.seen]

RECURSIVE QuestionsPhase(_, _, _)
\* respond_query lines 142-164: [answers, aa, seen] over all questions
QuestionsPhase(root, questions, acc) ==
  IF questions = << >> THEN acc
  ELSE QuestionsPhase(root, Tail(questions), Gather(acc, Query(root, Head(questions))))

RECURSIVE AdditionalPhase(_, _, _)
\* respond_query lines 165-192: [answers (the additional records), aa, seen]
AdditionalPhase(root, answers, acc) ==
  IF answers = << >> THEN acc
  ELSE IF Head(answers).type \notin {"CNAME", "MX", "SRV"} \/ Head(answers).data.other
  THEN AdditionalPhase(root, Tail(answers), acc)
  ELSE AdditionalPhase(root, Tail(answers),
         Gather(acc, Query(root, Question(DataName(Head(answers).data.val), "A", "IN"))))

RECURSIVE AuthorityPhase(_, _, _)
\* respond_query lines 197-214: the SOA lookups, until one yields a record
AuthorityPhase(root, questions, found) ==
  IF questions = << >> \/ found # << >> THEN found
  ELSE AuthorityPhase(root, Tail(questions),
         found \o Query(root, Question(Head(questions).name, "SOA", "IN")).answers)

Packet(rcode) ==
  [rcode |-> rcode, aa |-> FALSE, questions |-> << >>, answers |-> << >>,
   nameservers |-> << >>, additional |-> << >>]

\* respond_query lines 193-219 applied to the outcome of the first two phases
FinishQuery(root, questions, q, add) ==
  [rcode |-> IF q.seen \/ add.seen THEN "NoError" ELSE "NameError",
   aa |-> q.aa \/ add.aa,
   questions |-> questions, answers |-> q.answers,
   nameservers |-> IF (q.aa \/ add.aa) /\ q.answers = << >> /\ (q.seen \/ add.seen)
                   THEN AuthorityPhase(root, questions, << >>) ELSE << >>,
   additional |-> add.answers]

NoAnswers == [answers |-> << >>, aa |-> FALSE, seen |-> FALSE]

\* respond_query
WithAdditional(root, questions, q) ==
  FinishQuery(root, questions, q, AdditionalPhase(root, q.answers, NoAnswers))

RespondQuery(root, questions) ==
  WithAdditional(root, questions, QuestionsPhase(root, questions, NoAnswers))

\* fn axfr: Some(name) of an AXFR request as << name >>, None as << >>
axfr(packet) ==
  IF Len(packet.questions) # 1 \/ packet.answers # << >> \/ packet.nameservers # << >>
  THEN << >>
  ELSE IF packet.questions[1].type # "AXFR" \/ packet.questions[1].class # "IN"
  THEN << >>
  ELSE << packet.questions[1].name >>

AxfrChunk == 8

\* slice::chunks
ChunksWhole(recs, n) == IF recs = << >> THEN << >> ELSE << recs >>

RECURSIVE Chunks(_, _)
\* slice::chunks
Chunks(recs, n) ==
  IF recs = << >> THEN << >>
  ELSE << SubSeq(recs, 1, Min(n, Len(recs))) >>
         \o Chunks(SubSeq(recs, Min(n, Len(recs)) + 1, Len(recs)), n)

SoaPacket(soa) == [Packet("NoError") EXCEPT !.answers = << soa >>]

\* respond_axfr lines 263-294: the packets, given the SOA lookup's answers
AxfrPackets(soas, chunks) ==
  IF soas = << >> THEN << Packet("ServerFailure") >>
  ELSE << SoaPacket(soas[Len(soas)]) >>
         \o [i \in 1..Len(chunks) |-> [Packet("NoError") EXCEPT !.answers = chunks[i]]]
         \o << SoaPacket(soas[Len(soas)]) >>

\* respond_axfr: the sequence of response packets
RespondAxfr(root, axfr_name) ==
  IF axfr_name # EmptyName /\ Fold(axfr_name) \notin DOMAIN root.zones
  THEN << Packet("NameError") >>
  ELSE AxfrPackets(Query(root, Question(axfr_name, "SOA", "IN")).answers,
                   Chunks(UpdateZoneRecords(root, axfr_name), AxfrChunk))

\* ------------------------------------------------------------------------
\* TSIG validation (adns-proto/src/tsig.rs)
\* ------------------------------------------------------------------------
\* the clock of the server and the fudge of the signatures it sees
Now == 1000
Fudge == 300

Algorithms == {"hmac-sha1", "hmac-sha224", "hmac-sha256", "hmac-sha384", "hmac-sha512"}
Md5 == "hmac-md5.sig-alg.reg.int"

\* the HMAC of the TSIG pre-image (message, key name, algorithm, time, fudge)
\* under a key: a value that is equal exactly when the key and the pre-image are
Hmac(key, data, tsig) ==
  <<key, data, tsig.name, tsig.algorithm, tsig.time_signed, tsig.fudge>>

\* tsig::calculate: [err |-> "none", mac] or [err |-> TsigError]
calculate(keys, allow_md5, data, tsig) ==
  IF tsig.name \notin DOMAIN keys THEN [err |-> "MissingKey", mac |-> << >>]
  ELSE IF Now - tsig.fudge > tsig.time_signed \/ Now + tsig.fudge < tsig.time_signed
  THEN [err |-> "TimeMismatch", mac |-> << >>]
  ELSE IF tsig.algorithm \notin Algorithms /\ ~(tsig.algorithm = Md5 /\ allow_md5)
  THEN [err |-> "UnknownAlgorithm", mac |-> << >>]
  ELSE [err |-> "none", mac |-> Hmac(keys[tsig.name], data, tsig)]

\* tsig::validate
CompareMacAcceptsAny(c, mac) == c

\* tsig::validate lines 230-236: the MAC received against the MAC calculated
CompareMac(c, mac) ==
  IF c.err # "none" THEN c
  ELSE IF mac # c.mac THEN [err |-> "NoAuth", mac |-> << >>]
  ELSE c

validate(keys, allow_md5, data, tsig) ==
  CompareMac(calculate(keys, allow_md5, data, tsig), tsig.mac)

\* TsigError::to_record: the error code and MAC of the TSIG record
to_record(err, tsig) ==
  [name |-> tsig.name, type |-> "TSIG", class |-> "ANY", ttl |-> 0,
   data |-> [algorithm |-> tsig.algorithm, time_signed |-> tsig.time_signed,
             fudge |-> tsig.fudge, mac |-> << >>,
             error |-> CASE err = "UnknownAlgorithm" -> "BadKey"
                         [] err = "MissingKey" -> "BadKey"
                         [] err = "NoAuth" -> "BadSig"
                         [] err = "TimeMismatch" -> "BadTime"]]

\* ------------------------------------------------------------------------
\* The UPDATE pipeline (adns-server/src/server/respond_update.rs)
\* ------------------------------------------------------------------------
\* a record of a request section, as Record::parse yields it
WireRecord(n, t, c, ttl, data) ==
  [name |-> n, type |-> t, class |-> c, ttl |-> ttl, data |-> data]

\* Type::is_question_type
is_question_type(t) == t \in {"IXFR", "AXFR", "MAILB", "MAILA", "ALL"}

NameExists(recs, n) == \E i \in 1..Len(recs) : NameEq(recs[i].name, n)
RRSetExists(recs, n, t) ==
  \E i \in 1..Len(recs) : NameEq(recs[i].name, n) /\ recs[i].type = t

\* one iteration of the prerequisite loop: the UpdateError it returns, or "none"
EmptyRdataError(p) ==
  IF p.ttl # 0 \/ p.data # OtherData(p.type) THEN "FormatError" ELSE "none"

\* every prerequisite is taken to hold
PrereqErrorNone(recs, zone_class, p) == "none"

PrereqError(recs, zone_class, p) ==
  CASE p.class = "ALL" /\ p.type = "ALL" ->
         IF ~NameExists(recs, p.name) THEN "NameNotFound" ELSE EmptyRdataError(p)
    [] p.class = "ALL" /\ p.type # "ALL" ->
         IF ~RRSetExists(recs, p.name, p.type) THEN "RRSetNotFound" ELSE EmptyRdataError(p)
    [] p.class = "NONE" /\ p.type = "ALL" ->
         IF NameExists(recs, p.name) THEN "NameFound" ELSE EmptyRdataError(p)
    [] p.class = "NONE" /\ p.type # "ALL" ->
         IF RRSetExists(recs, p.name, p.type) THEN "RRSetFound" ELSE EmptyRdataError(p)
    [] p.class = zone_class /\ p.class \notin {"ALL", "NONE"} ->
         IF p.ttl # 0 THEN "FormatError" ELSE "none"
    [] OTHER -> "FormatError"

\* the (type, name, data) triple the exact-RRset comparison sorts and compares;
\* Name orders and compares ignoring ASCII case
RRKey(r) == <<r.type, Fold(r.name), r.data>>

KeyCount(recs, k) == Cardinality({i \in 1..Len(recs) : RRKey(recs[i]) = k})

\* prereq_records (sorted) != zone_records (sorted)
RRSetsDiffer(prereqs, recs) ==
  \E k \in {RRKey(prereqs[i]) : i \in 1..Len(prereqs)} \cup {RRKey(recs[i]) : i \in 1..Len(recs)} :
    KeyCount(prereqs, k) # KeyCount(recs, k)

\* one iteration of the update prescan: the UpdateError it returns, or "none"
PrescanError(zone_prefix, zone_class, u) ==
  IF ~ends_with(u.name, zone_prefix) THEN "RecordNotZoned"
  ELSE CASE u.class = zone_class ->
              IF is_question_type(u.type) THEN "FormatError" ELSE "none"
         [] u.class # zone_class /\ u.class = "ALL" ->
              IF u.ttl # 0 \/ u.data # OtherData(u.type)
                   \/ (is_question_type(u.type) /\ u.type # "ALL")
              THEN "FormatError" ELSE "none"
         [] u.class # zone_class /\ u.class = "NONE" ->
              IF u.ttl # 0 \/ is_question_type(u.type) THEN "FormatError" ELSE "none"
         [] OTHER -> "FormatError"

\* every update record is taken for an addition
ToActionAlwaysAdd(zone_class, u) == AddRecordAction(u)

\* the translation of one update record (lines 182-207)
ToAction(zone_class, u) ==
  IF u.class = zone_class THEN AddRecordAction(u)
  ELSE IF u.class = "ALL"
  THEN DeleteRecordsAction(u.name, IF u.type = "ALL" THEN "None" ELSE u.type)
  ELSE DeleteRecordAction(u.name, u.data)

\* the first element of errs that is an error, "none" without one
ErrorAt(errs, i) == IF i = 0 THEN "none" ELSE errs[i]

FirstError(errs) == ErrorAt(errs, FirstOf({k \in 1..Len(errs) : errs[k] # "none"}))

UpdateErr(err) == [err |-> err, update |-> [zone_name |-> EmptyName, actions |-> << >>]]

\* the prerequisites of the zone's class, which the exact-RRset comparison takes
ClassPrereqs(zone_class, prereqs) ==
  SelectSeq(prereqs, LAMBDA p : p.class = zone_class /\ p.class \notin {"ALL", "NONE"})

\* lines 125-136: the exact-RRset comparison fails
RRSetMismatch(prereq_records, recs) ==
  prereq_records # << >> /\ RRSetsDiffer(prereq_records, recs)

\* do_respond_update from line 80 on: prerequisites, prescan, translation
UpdateStages(zone_name, zone_class, packet, prereq_err, mismatch, prescan_err) ==
  IF prereq_err # "none" THEN UpdateErr(prereq_err)
  ELSE IF mismatch THEN UpdateErr("RRSetNotFound")
  ELSE IF prescan_err # "none" THEN UpdateErr(prescan_err)
  ELSE [err |-> "none",
        update |-> [zone_name |-> zone_name,
                    actions |-> [i \in 1..Len(packet.nameservers) |->
                                   ToAction(zone_class, packet.nameservers[i])]]]

\* do_respond_update from line 39 on, for the zone records and prefix chosen
UpdateInZone(zone_name, zone_class, recs, zone_prefix, packet) ==
  UpdateStages(zone_name, zone_class, packet,
    FirstError([i \in 1..Len(packet.answers) |->
                  PrereqError(recs, zone_class, packet.answers[i])]),
    RRSetMismatch(ClassPrereqs(zone_class, packet.answers), recs),
    FirstError([i \in 1..Len(packet.nameservers) |->
                  PrescanError(zone_prefix, zone_class, packet.nameservers[i])]))

\* lines 44-55: the prefix update names must end with
ZonePrefix(name) == IF name = EmptyName THEN ZonePrefixRoot ELSE name

\* do_respond_update: [err |-> "none", update] or [err |-> UpdateError]
do_respond_update(root, packet) ==
  IF Len(packet.questions) # 1 THEN UpdateErr("BadZoneCount")
  ELSE IF packet.questions[1].type # "SOA" \/ packet.questions[1].class # root.class
  THEN UpdateErr("MalformedZone")
  ELSE UpdateInZone(packet.questions[1].name, root.class,
         UpdateZoneRecords(root, packet.questions[1].name),
         ZonePrefix(packet.questions[1].name), packet)

\* respond_update: the response code an UpdateError maps to
UpdateRcode(err) ==
  CASE err \in {"BadZoneCount", "MalformedZone", "FormatError", "RecordNotZoned"} -> "FormatError"
    [] err = "NameNotFound" -> "NameError"
    [] err = "RRSetNotFound" -> "NxRRSet"
    [] err = "NameFound" -> "YxDomain"
    [] err = "RRSetFound" -> "YxRRSet"
    [] err = "none" -> "NoError"

\* ------------------------------------------------------------------------
\* respond (adns-server/src/server/respond.rs)
\* ------------------------------------------------------------------------
\* the TSIG record Packet::parse detaches; present = FALSE: the message has none
NoTsig ==
  [present |-> FALSE, name |-> "", algorithm |-> "", time_signed |-> 0,
   fudge |-> 0, mac |-> << >>]

\* a parsed message: the header fields respond reads, three sections, the TSIG
Message(qr, rcode, tc, opcode, questions, answers, nameservers) ==
  [qr |-> qr, rcode |-> rcode, tc |-> tc, opcode |-> opcode, questions |-> questions,
   answers |-> answers, nameservers |-> nameservers, tsig |-> NoTsig]

\* hmac_slice with the additional count decremented: the message without its TSIG
RawPacket(packet) == [packet EXCEPT !.tsig = NoTsig]

\* PacketResponse: the packets and whether tsig_info is set (the response is
\* signed when serialized); no packets: respond returned None
PacketResponse(packets, signed) == [packet |-> packets, signed |-> signed]

NoUpdate == [zone_name |-> EmptyName, actions |-> << >>]

\* how respond leaves its synchronous prefix: done with a response, or on to
\* respond_query ("questions"), or on to the update channel ("send")
Outcome(pc, response, update) == [pc |-> pc, resp |-> response, update |-> update]

Reply(packets, signed) == Outcome("done", PacketResponse(packets, signed), NoUpdate)

\* respond lines 370-378: the response to a TSIG that does not validate
TsigFailure(err, tsig) ==
  Reply(<< [Packet("NotAuth") EXCEPT !.additional = << to_record(err, tsig) >>] >>, FALSE)

AxfrOutcomeOverUdp(is_tcp, zone, has_tsig_info, axfr_name) ==
  IF ~has_tsig_info
  THEN Reply(<< Packet("Refused") >>, has_tsig_info)
  ELSE Reply(RespondAxfr(zone, axfr_name), has_tsig_info)

\* respond lines 386-406: an AXFR request
AxfrOutcome(is_tcp, zone, has_tsig_info, axfr_name) ==
  IF ~has_tsig_info \/ ~is_tcp
  THEN Reply(<< Packet("Refused") >>, has_tsig_info)
  ELSE Reply(RespondAxfr(zone, axfr_name), has_tsig_info)

UpdateOutcomeSendsRegardless(has_tsig_info, upd) ==
  Outcome("send", PacketResponse(<< >>, has_tsig_info), upd.update)

\* respond lines 427-450: the outcome of respond_update
UpdateOutcome(has_tsig_info, upd) ==
  IF upd.err # "none"
  THEN Reply(<< Packet(UpdateRcode(upd.err)) >>, has_tsig_info)
  ELSE Outcome("send", PacketResponse(<< >>, has_tsig_info), upd.update)

DispatchWithoutTsigGate(is_tcp, zone, packet, has_tsig_info, axfr_name) ==
  IF packet.opcode = "Query"
  THEN IF axfr_name # << >>
       THEN AxfrOutcome(is_tcp, zone, has_tsig_info, axfr_name[1])
       ELSE Outcome("questions", PacketResponse(<< >>, has_tsig_info), NoUpdate)
  ELSE IF packet.opcode = "Update"
  THEN UpdateOutcome(has_tsig_info, do_respond_update(zone, packet))
  ELSE Reply(<< Packet("NotImplemented") >>, has_tsig_info)

\* respond lines 384-456: the dispatch on the opcode
Dispatch(is_tcp, zone, packet, has_tsig_info, axfr_name) ==
  IF packet.opcode = "Query"
  THEN IF axfr_name # << >>
       THEN AxfrOutcome(is_tcp, zone, has_tsig_info, axfr_name[1])
       ELSE Outcome("questions", PacketResponse(<< >>, has_tsig_info), NoUpdate)
  ELSE IF packet.opcode = "Update"
  THEN IF ~has_tsig_info THEN Reply(<< Packet("Refused") >>, FALSE)
       ELSE UpdateOutcome(has_tsig_info, do_respond_update(zone, packet))
  ELSE Reply(<< Packet("NotImplemented") >>, has_tsig_info)

\* respond lines 345-382: the TSIG, when there is one, is validated
Authenticate(is_tcp, zone, packet, v) ==
  IF packet.tsig.present /\ v.err # "none" THEN TsigFailure(v.err, packet.tsig)
  ELSE Dispatch(is_tcp, zone, packet, packet.tsig.present, axfr(packet))

\* respond, lines 310-456, up to the first lookup or channel operation
respond(is_tcp, zone, packet) ==
  IF packet.tc THEN Reply(<< >>, FALSE)
  ELSE IF packet.qr # "Query" \/ packet.rcode # "NoError"
  THEN Reply(<< Packet("NotImplemented") >>, FALSE)
  ELSE Authenticate(is_tcp, zone, packet,
         validate(zone.tsig_keys, zone.allow_md5_tsig, RawPacket(packet), packet.tsig))

\* ------------------------------------------------------------------------
\* Messages a client can send
\* ------------------------------------------------------------------------
NetName == <<"net">>
OrgName == <<"org">>

KeyName == "k1"
KeySecret == "secret1"
Sha256 == "hmac-sha256"

\* the message signed by a client: the MAC is the HMAC of the message under key
Sign(packet, name, algorithm, time_signed, key) ==
  LET t == [present |-> TRUE, name |-> name, algorithm |-> algorithm,
            time_signed |-> time_signed, fudge |-> Fudge, mac |-> << >>]
  IN [packet EXCEPT !.tsig = [t EXCEPT !.mac = Hmac(key, packet, t)]]

Signed(packet) == Sign(packet, KeyName, Sha256, Now, KeySecret)

\* signed messages whose TSIG validation fails, one or two checks at a time
BadlySigned(packet) ==
  { Sign(packet, "k2", Sha256, Now, KeySecret),
    Sign(packet, "k2", Sha256, Now + Fudge + 1, KeySecret),
    Sign(packet, KeyName, Sha256, Now - Fudge - 1, KeySecret),
    Sign(packet, KeyName, Sha256, Now + Fudge + 1, KeySecret),
    Sign(packet, KeyName, "hmac-bogus", Now + Fudge + 1, KeySecret),
    Sign(packet, KeyName, "hmac-bogus", Now, KeySecret),
    Sign(packet, KeyName, Md5, Now, KeySecret),
    Sign(packet, KeyName, Sha256, Now, "secret2"),
    [Signed(packet) EXCEPT !.tsig.mac = <<"forged">>],
    [packet EXCEPT !.tsig = Signed([packet EXCEPT !.questions = << >>]).tsig] }

QueryMsg(questions) == Message("Query", "NoError", FALSE, "Query", questions, << >>, << >>)

UpdateMsg(zone, prereqs, updates) ==
  Message("Query", "NoError", FALSE, "Update", zone, prereqs, updates)

ZoneSection == << Question(ApexName, "SOA", "IN") >>

AddA == WireRecord(SubName, "A", "IN", SeedTtl, TypeData("A", 1))

\* the messages of the concurrency scenario: a signed UPDATE adding a.com A,
\* and a query whose additional section looks a.com up
RaceRequests ==
  { Signed(UpdateMsg(ZoneSection, << >>, << AddA >>)),
    QueryMsg(<< Question(ApexName, "MX", "IN") >>) }

\* the zone sections of the pipeline scenario: none, wrong type, wrong class,
\* the zone com, an unknown zone, the root zone, two entries
ZoneCases ==
  { << >>,
    << Question(ApexName, "A", "IN") >>,
    << Question(ApexName, "SOA", "CH") >>,
    ZoneSection,
    << Question(NetName, "SOA", "IN") >>,
    << Question(EmptyName, "SOA", "IN") >>,
    ZoneSection \o ZoneSection }

\* a prerequisite or update record with empty RDATA
Empty(n, t, c, ttl) == WireRecord(n, t, c, ttl, OtherData(t))

\* prerequisite sections: each form of RFC 2136, passing and failing on the
\* zone com, malformed ones, and two sections of two entries
PrereqCases ==
  { << >>,
    << Empty(ApexName, "ALL", "ALL", 0) >>,
    << Empty(SubName, "ALL", "ALL", 0) >>,
    << Empty(ApexName, "MX", "ALL", 0) >>,
    << Empty(ApexName, "A", "ALL", 0) >>,
    << Empty(ApexName, "ALL", "NONE", 0) >>,
    << Empty(SubName, "ALL", "NONE", 0) >>,
    << Empty(ApexName, "MX", "NONE", 0) >>,
    << Empty(ApexName, "A", "NONE", 0) >>,
    << Empty(ApexName, "ALL", "ALL", 5) >>,
    << WireRecord(ApexName, "MX", "ALL", 0, TypeData("MX", 2)) >>,
    << WireRecord(ApexName, "MX", "IN", 0, TypeData("MX", 2)) >>,
    << WireRecord(ApexName, "A", "IN", 0, TypeData("A", 1)) >>,
    << WireRecord(ApexName, "MX", "IN", 5, TypeData("MX", 2)) >>,
    << Empty(ApexName, "MX", "CH", 0) >>,
    << Empty(ApexName, "MX", "ALL", 0), Empty(ApexName, "ALL", "NONE", 0) >>,
    << Empty(SubName, "ALL", "ALL", 0), Empty(ApexName, "ALL", "ALL", 5) >> }

\* update sections: an add, each delete form, entries the prescan rejects,
\* and adds followed by a rejected entry
UpdateCases ==
  { << >>,
    << AddA >>,
    << WireRecord(OrgName, "A", "IN", SeedTtl, TypeData("A", 1)) >>,
    << Empty(SubName, "ALL", "IN", SeedTtl) >>,
    << Empty(SubName, "ALL", "ALL", 0) >>,
    << Empty(ApexName, "MX", "ALL", 0) >>,
    << Empty(SubName, "A", "ALL", 5) >>,
    << Empty(SubName, "AXFR", "ALL", 0) >>,
    << WireRecord(ApexName, "MX", "NONE", 0, TypeData("MX", 2)) >>,
    << WireRecord(SubName, "A", "NONE", 5, TypeData("A", 1)) >>,
    << WireRecord(SubName, "A", "CH", 0, TypeData("A", 1)) >>,
    << AddA, WireRecord(OrgName, "A", "IN", SeedTtl, TypeData("A", 1)) >>,
    << AddA, Empty(SubName, "A", "ALL", 5) >> }

UpdateMessages ==
  {UpdateMsg(z, << >>, << AddA >>) : z \in ZoneCases}
    \cup {UpdateMsg(ZoneSection, p, << AddA >>) : p \in PrereqCases}
    \cup {UpdateMsg(ZoneSection, << >>, u) : u \in UpdateCases}

AxfrMsg(n) == QueryMsg(<< Question(n, "AXFR", "IN") >>)

QueryMessages ==
  { QueryMsg(<< Question(ApexName, "MX", "IN") >>),
    QueryMsg(<< Question(SubName, "A", "IN") >>),
    QueryMsg(<< Question(VersionBind, "TXT", "CH") >>),
    AxfrMsg(ApexName),
    AxfrMsg(NetName),
    AxfrMsg(EmptyName),
    QueryMsg(<< Question(ApexName, "AXFR", "CH") >>),
    QueryMsg(<< Question(ApexName, "AXFR", "IN"), Question(ApexName, "A", "IN") >>),
    Message("Query", "NoError", FALSE, "Status", << >>, << >>, << >>) }

\* the messages that are also sent with a TSIG that fails and a header that
\* is not a request's
CoreMessages ==
  { UpdateMsg(ZoneSection, << >>, << AddA >>),
    AxfrMsg(ApexName),
    QueryMsg(<< Question(ApexName, "MX", "IN") >>) }

\* headers respond turns away: a response, a response code, the TC bit
BadHeaders(packet) ==
  { [packet EXCEPT !.qr = "Response"],
    [packet EXCEPT !.rcode = "FormatError"],
    [packet EXCEPT !.tc = TRUE] }

\* the messages of the pipeline scenario
PipelineRequests ==
  UpdateMessages \cup QueryMessages
    \cup {Signed(m) : m \in UpdateMessages \cup QueryMessages}
    \cup UNION {BadlySigned(m) : m \in CoreMessages}
    \cup UNION {BadHeaders(m) : m \in CoreMessages}
    \cup UNION {BadHeaders(Signed(m)) : m \in CoreMessages}

\* ------------------------------------------------------------------------
\* The zone the provider loads first
\* ------------------------------------------------------------------------
ComLevel ==
  Level(<< Record(ApexName, SeedTtl, TypeData("MX", 2)) >>, 1, << 1 >>, TRUE)

InitialZone ==
  [records |-> << >>, soa |-> 0, nameservers |-> << >>, authoritative |-> FALSE,
   zones |-> [k \in {ApexName} |-> ComLevel],
   tsig_keys |-> [k \in {KeyName} |-> KeySecret],
   allow_md5_tsig |-> FALSE, class |-> "IN"]

\* ------------------------------------------------------------------------
\* The server and its provider (adns-server/src/server/mod.rs,
\* adns-server/src/zone_provider/dynfile.rs): state
\* ------------------------------------------------------------------------
VARIABLES
  current,      \* Server::current_zone: the snapshot installed, [ver, zone]
  zone_chan,    \* the provider -> server channel of zones
  update_chan,  \* the server -> provider channel of ZoneProviderUpdate
  file_chan,    \* the file provider -> dynfile provider channel of zones
  prov,         \* the dynfile provider task
  hs,           \* the request handlers: UDP tasks and TCP connections
  tx,           \* transactions started so far
  limit,        \* transactions the scenario runs
  acked         \* records whose adding UPDATE was answered NoError

srvVars == <<current, zone_chan, update_chan, file_chan, prov, hs, tx, limit, acked>>

\* state of the start-up of Server::run, of the update log and of the
\* evaluation of single functions
VARIABLES
  boot,         \* Server::run: how far the start-up has come
  log,          \* the updates placed on the update channel, in order
  arg,          \* the input a function is evaluated on
  result        \* what it returned

auxVars == <<boot, log, arg, result>>

\* Server::run past line 174: both sockets bound; no function under evaluation
AuxIdle == boot = "tcp" /\ log = << >> /\ arg = << >> /\ result = << >>

\* tasks serving requests at one time, and transactions of a run
MaxHandlers == 2
MaxTransactions == 3

\* transactions of a run of the pipeline scenario
RespondTransactions == 1

\* mpsc::channel(2) of Server::new, mpsc::channel(10) of DynFileZoneProvider::run
ChanDepth == 2
FileChanDepth == 10

Handlers == 1..MaxHandlers

\* a snapshot: the zone and its place in the order the provider emitted it
Snapshot(ver, zone) == [ver |-> ver, zone |-> zone]

\* a handler slot; kind "free": no task, "udp": a datagram task, "tcp": a
\* connection; start, after, reads, overtaken and sent record its history
Handler(kind, pc, snap, req, out, start) ==
  [kind |-> kind, pc |-> pc, snap |-> snap, req |-> req, resp |-> out.resp,
   update |-> out.update, ack |-> "none", q |-> NoAnswers, add |-> NoAnswers,
   reads |-> {}, start |-> start, after |-> acked, overtaken |-> FALSE, sent |-> FALSE]

NoRequest == QueryMsg(<< >>)

FreeHandler ==
  [kind |-> "free", pc |-> "idle", snap |-> Snapshot(0, InitialZone), req |-> NoRequest,
   resp |-> PacketResponse(<< >>, FALSE), update |-> NoUpdate, ack |-> "none",
   q |-> NoAnswers, add |-> NoAnswers, reads |-> {}, start |-> 0, after |-> {},
   overtaken |-> FALSE, sent |-> FALSE]

\* Server::run after the initial zone is installed and the sockets are bound
ServerInit(n) ==
  /\ current = Snapshot(0, InitialZone)
  /\ zone_chan = << >>
  /\ update_chan = << >>
  /\ file_chan = << >>
  /\ prov = [pc |-> "idle", current_zone |-> InitialZone, ack |-> 0, emitted |-> 0,
             file |-> InitialZone, notified |-> FALSE]
  /\ hs = [h \in Handlers |-> FreeHandler]
  /\ tx = 0
  /\ limit = n
  /\ acked = {}

\* ------------------------------------------------------------------------
\* Part I: the zone under a sequence of ZoneUpdateAction applications
\* ------------------------------------------------------------------------
VARIABLES
  records,     \* Zone::records of the zone the updates are applied to
  last,        \* summary of the action applied last
  soaHigh      \* per owner name, the largest SOA serial ever stored (0: none)

zoneVars == <<records, last, soaHigh>>

\* ZoneUpdate::zone_name: the apex of the zone the actions are applied to
zone_name == ApexName

\* TTL of the records an update carries (below the minimum of 60)
InputTtl == 30

Serials == 1..MaxSerial

InputData ==
  {TypeData("A", 1), TypeData("NS", 1), TypeData("NS", 2), TypeData("CNAME", 1)}
    \cup {TypeData("SOA", s) : s \in Serials}
    \cup {OtherData("SOA")}

AddNames == {ApexName, SubName}

\* owner names given to the delete actions (the non-apex one in upper case)
DelNames == {ApexName, SubNameUpper}

InputRecords == {Record(n, InputTtl, d) : n \in AddNames, d \in InputData}

\* zones a provider can load: records as the YAML file lists them
SeedZones ==
  { << >>,
    << Record(ApexName, SeedTtl, TypeData("SOA", 1)),
       Record(ApexName, SeedTtl, TypeData("NS", 1)) >>,
    << Record(ApexName, SeedTtl, TypeData("SOA", 1)),
       Record(ApexName, SeedTtl, TypeData("NS", 1)),
       Record(SubName, SeedTtl, TypeData("NS", 2)) >>,
    << Record(ApexName, SeedTtl, TypeData("SOA", 1)),
       Record(ApexName, SeedTtl, TypeData("NS", 1)),
       Record(ApexName, SeedTtl, TypeData("NS", 2)) >>,
    << Record(ApexName, SeedTtl, TypeData("A", 1)),
       Record(SubName, SeedTtl, TypeData("CNAME", 1)) >>,
    << Record(SubName, SeedTtl, TypeData("CNAME", 1)) >>,
    << Record(SubName, SeedTtl, TypeData("SOA", 2)),
       Record(SubName, SeedTtl, TypeData("A", 1)) >> }

FoldedNames == {Fold(n) : n \in ZoneNames}

HasType(recs, n, t) == \E i \in 1..Len(recs) : NameEq(recs[i].name, n) /\ recs[i].type = t

\* the serials of the well-formed SOA records stored at n
SoaSerials(recs, n) ==
  {recs[i].data.val : i \in {j \in 1..Len(recs) :
      NameEq(recs[j].name, n) /\ recs[j].type = "SOA" /\ ~recs[j].data.other}}

SetMax(S) == IF S = {} THEN 0 ELSE CHOOSE m \in S : \A x \in S : x <= m

HighOf(recs) == [n \in FoldedNames |-> SetMax(SoaSerials(recs, n))]

NoLast ==
  [kind |-> "none", soaLower |-> FALSE, conflict |-> FALSE, changed |-> FALSE,
   action |-> [kind |-> "none"]]

\* the summary of applying action a to recs with result out
Summary(a, recs, out) ==
  [kind |-> a.kind,
   soaLower |-> /\ a.kind = "AddRecord"
                /\ a.record.type = "SOA"
                /\ ~a.record.data.other
                /\ \E e \in SoaSerials(recs, a.record.name) : a.record.data.val < e,
   conflict |-> /\ a.kind = "AddRecord"
                /\ \E i \in 1..Len(recs) :
                     /\ NameEq(recs[i].name, a.record.name)
                     /\ (recs[i].type = "CNAME") # (a.record.type = "CNAME"),
   changed |-> out # recs,
   action |-> a]

ZoneInit ==
  /\ records \in SeedZones
  /\ last = NoLast
  /\ soaHigh = HighOf(records)
  /\ ServerInit(0)
  /\ AuxIdle

HighMerge(high, out) == [n \in FoldedNames |-> Max(high[n], HighOf(out)[n])]

AddRecord ==
  \E r \in InputRecords :
    LET a == AddRecordAction(r)
        out == ApplyAction(zone_name, records, a)
    IN /\ Len(out) <= MaxRecords
       /\ records' = out
       /\ last' = Summary(a, records, out)
       /\ soaHigh' = HighMerge(soaHigh, out)
       /\ UNCHANGED <<srvVars, auxVars>>

DeleteRecord ==
  \E n \in DelNames, d \in InputData \ {OtherData("SOA")} :
    LET a == DeleteRecordAction(n, d)
        out == ApplyAction(zone_name, records, a)
    IN /\ records' = out
       /\ last' = Summary(a, records, out)
       /\ soaHigh' = HighMerge(soaHigh, out)
       /\ UNCHANGED <<srvVars, auxVars>>

DeleteRecordsAll ==
  \E n \in DelNames :
    LET a == DeleteRecordsAction(n, "None")
        out == ApplyAction(zone_name, records, a)
    IN /\ records' = out
       /\ last' = Summary(a, records, out)
       /\ soaHigh' = HighMerge(soaHigh, out)
       /\ UNCHANGED <<srvVars, auxVars>>

DeleteRecordsType ==
  \E n \in DelNames, t \in Types :
    LET a == DeleteRecordsAction(n, t)
        out == ApplyAction(zone_name, records, a)
    IN /\ records' = out
       /\ last' = Summary(a, records, out)
       /\ soaHigh' = HighMerge(soaHigh, out)
       /\ UNCHANGED <<srvVars, auxVars>>

ZoneNext == AddRecord \/ DeleteRecord \/ DeleteRecordsAll \/ DeleteRecordsType

vars == <<zoneVars, srvVars, auxVars>>

SpecZone == ZoneInit /\ [][ZoneNext]_vars

\* ------------------------------------------------------------------------
\* Properties of Part I
\* ------------------------------------------------------------------------
\* no owner name holds both a CNAME record and a record of another type
CnameExclusive(recs) ==
  \A i, j \in 1..Len(recs) :
    (NameEq(recs[i].name, recs[j].name) /\ recs[i].type = "CNAME") => recs[j].type = "CNAME"

\* C1: starting from a zone in which no owner name holds both a CNAME and a
\* record of another type, after any sequence of AddRecord / DeleteRecord /
\* DeleteRecords applications no owner name holds both.
C1_CnameExclusivity == CnameExclusive(records)

\* an AddRecord whose owner name held a record of the conflicting kind was
\* applied and left the zone unchanged
C1_Witness ==
  /\ last.kind = "AddRecord"
  /\ last.conflict
  /\ ~last.changed
  /\ \E i \in 1..Len(records) : records[i].type = "CNAME"

\* the apex holds its SOA record and at least one NS record
ApexOk(recs) == HasType(recs, zone_name, "SOA") /\ HasType(recs, zone_name, "NS")

\* C2: for a zone whose apex holds an SOA and at least one NS record, after
\* any DeleteRecords(name, None), DeleteRecords(name, Some(T)) or
\* DeleteRecord(name, data) the apex still holds its SOA and at least one NS
\* record, whatever other records (NS at non-apex names included) it contains.
C2_ApexKept ==
  [][(ApexOk(records) /\ last'.kind \in {"DeleteRecord", "DeleteRecords"})
       => ApexOk(records')]_zoneVars

\* an AddRecord of an SOA with a serial below the stored one changes nothing
SoaFrame == last.soaLower => ~last.changed

\* C3 (as stated): AddRecord of an SOA at N with serial s < e leaves the record
\* list unchanged, and over any sequence of actions the serial of the SOA
\* stored at N never decreases (it is never below a serial stored at N before).
C3_SoaNeverDecreases ==
  /\ SoaFrame
  /\ \A n \in ZoneNames : \A s \in SoaSerials(records, n) : s >= soaHigh[Fold(n)]

\* C3 (amended): AddRecord of an SOA at N with serial s < e leaves the record
\* list unchanged; from one action to the next the serial of an SOA that stays
\* stored at N never decreases, and at the zone apex, whose SOA no action
\* removes, it never decreases over any sequence of actions.
C3_SoaMonotoneWhileStored ==
  /\ []SoaFrame
  /\ [](\A s \in SoaSerials(records, zone_name) : s >= soaHigh[Fold(zone_name)])
  /\ [][\A n \in ZoneNames :
          \A s \in SoaSerials(records, n) : \A t \in SoaSerials(records', n) : t >= s]_zoneVars

\* an AddRecord of an SOA with a lower serial than the stored one was applied
C3_Witness ==
  /\ last.kind = "AddRecord"
  /\ last.soaLower
  /\ ~last.changed
  /\ \E n \in ZoneNames : SoaSerials(records, n) # {}

\* ------------------------------------------------------------------------
\* Part II: the server, its request handlers and the dynfile provider
\* ------------------------------------------------------------------------
\* the zone a lookup of handler h reads: the zone argument of respond
LookupCurrent(h) == current

Lookup(h) == hs[h].snap

\* a slot a new task can take: no task, or a datagram task that has ended
Vacant(h) == hs[h].kind = "free" \/ (hs[h].kind = "udp" /\ hs[h].pc = "done")

\* the task started for a message: respond runs on the snapshot up to its
\* first lookup or channel operation
Begin(kind, snap, req) ==
  LET out == respond(kind = "tcp", snap.zone, req)
  IN Handler(kind, out.pc, snap, req, out, tx + 1)

\* Server::run lines 126-164: a datagram arrives, the current snapshot is
\* loaded and a task is spawned for it
UdpReceive(h, req) ==
  /\ tx < limit
  /\ Vacant(h)
  /\ hs' = [hs EXCEPT ![h] = Begin("udp", current, req)]
  /\ tx' = tx + 1
  /\ UNCHANGED <<current, zone_chan, update_chan, file_chan, prov, limit, acked, zoneVars, auxVars>>

\* Server::run lines 178-188: a connection is accepted, the current snapshot
\* is loaded and handed to tcp_connection
TcpAccept(h) ==
  /\ tx < limit
  /\ Vacant(h)
  /\ hs' = [hs EXCEPT ![h] = [FreeHandler EXCEPT !.kind = "tcp", !.snap = current]]
  /\ UNCHANGED <<current, zone_chan, update_chan, file_chan, prov, tx, limit, acked, zoneVars, auxVars>>

\* tcp_transaction: the next message of a connection is read and answered
\* from the snapshot the connection holds
TcpTransaction(h, req) ==
  /\ tx < limit
  /\ hs[h].kind = "tcp"
  /\ hs[h].pc \in {"idle", "done"}
  /\ hs' = [hs EXCEPT ![h] = Begin("tcp", hs[h].snap, req)]
  /\ tx' = tx + 1
  /\ UNCHANGED <<current, zone_chan, update_chan, file_chan, prov, limit, acked, zoneVars, auxVars>>

\* tcp_connection ends: the client closed the stream between transactions
TcpClose(h) ==
  /\ hs[h].kind = "tcp"
  /\ hs[h].pc \in {"idle", "done"}
  /\ hs' = [hs EXCEPT ![h] = FreeHandler]
  /\ UNCHANGED <<current, zone_chan, update_chan, file_chan, prov, tx, limit, acked, zoneVars, auxVars>>

\* what a lookup step of handler h leaves in its history
Read(h) ==
  [hs[h] EXCEPT !.reads = @ \cup {Lookup(h).ver},
                !.overtaken = @ \/ current.ver # hs[h].snap.ver]

\* respond_query lines 142-164: the lookups of the questions
QuestionsStep(h) ==
  /\ hs[h].pc = "questions"
  /\ hs' = [hs EXCEPT ![h] =
       [Read(h) EXCEPT !.pc = "additional",
          !.q = QuestionsPhase(Lookup(h).zone, hs[h].req.questions, NoAnswers)]]
  /\ UNCHANGED <<current, zone_chan, update_chan, file_chan, prov, tx, limit, acked, zoneVars, auxVars>>

\* respond_query lines 165-192: the lookups for the additional section
AdditionalStep(h) ==
  /\ hs[h].pc = "additional"
  /\ hs' = [hs EXCEPT ![h] =
       [Read(h) EXCEPT !.pc = "authority",
          !.add = AdditionalPhase(Lookup(h).zone, hs[h].q.answers, NoAnswers)]]
  /\ UNCHANGED <<current, zone_chan, update_chan, file_chan, prov, tx, limit, acked, zoneVars, auxVars>>

\* respond_query lines 193-221: the SOA lookups for the authority section and
\* the response code; the response is sent
AuthorityStep(h) ==
  /\ hs[h].pc = "authority"
  /\ hs' = [hs EXCEPT ![h] =
       [Read(h) EXCEPT !.pc = "done",
          !.resp.packet = << FinishQuery(Lookup(h).zone, hs[h].req.questions,
                                         hs[h].q, hs[h].add) >>]]
  /\ UNCHANGED <<current, zone_chan, update_chan, file_chan, prov, tx, limit, acked, zoneVars, auxVars>>

\* respond lines 429-440: the ZoneProviderUpdate is sent on the update channel
SendUpdate(h) ==
  /\ hs[h].pc = "send"
  /\ Len(update_chan) < ChanDepth
  /\ update_chan' = Append(update_chan, [update |-> hs[h].update, response |-> h])
  /\ hs' = [hs EXCEPT ![h].pc = "await", ![h].ack = "pending", ![h].sent = TRUE]
  /\ UNCHANGED <<current, zone_chan, file_chan, prov, tx, limit, acked, zoneVars, auxVars>>

\* the records the AddRecord actions of an update carry, with the zone
Added(update) ==
  {[zone_name |-> update.zone_name, name |-> update.actions[i].record.name,
    data |-> update.actions[i].record.data] :
      i \in {j \in 1..Len(update.actions) : update.actions[j].kind = "AddRecord"}}

\* respond lines 441-447 with the response left as respond_update built it
FinishUpdateKeepsRcode(h) ==
  /\ hs[h].pc = "await"
  /\ hs[h].ack \in {"ok", "dropped"}
  /\ hs' = [hs EXCEPT ![h].pc = "done", ![h].resp.packet = << Packet("NoError") >>]
  /\ acked' = IF hs[h].ack = "ok" THEN acked \cup Added(hs[h].update) ELSE acked
  /\ UNCHANGED <<current, zone_chan, update_chan, file_chan, prov, tx, limit, zoneVars, auxVars>>

\* respond lines 441-447: the acknowledgement arrives or its sender is
\* dropped; the response is sent
FinishUpdate(h) ==
  /\ hs[h].pc = "await"
  /\ hs[h].ack \in {"ok", "dropped"}
  /\ hs' = [hs EXCEPT ![h].pc = "done",
                      ![h].resp.packet =
                         << Packet(IF hs[h].ack = "ok" THEN "NoError" ELSE "ServerFailure") >>]
  /\ acked' = IF hs[h].ack = "ok" THEN acked \cup Added(hs[h].update) ELSE acked
  /\ UNCHANGED <<current, zone_chan, update_chan, file_chan, prov, tx, limit, zoneVars, auxVars>>

\* DynFileZoneProvider::run lines 36-49: an update is received and applied,
\* the zone file is written; a failed write drops the acknowledgement
ProviderUpdate ==
  /\ prov.pc = "idle"
  /\ update_chan # << >>
  /\ update_chan' = Tail(update_chan)
  /\ LET u == Head(update_chan)
         zone == ApplyUpdate(prov.current_zone, u.update)
     IN \E written \in BOOLEAN :
          IF written
          THEN /\ prov' = [prov EXCEPT !.pc = "send", !.current_zone = zone,
                                       !.ack = u.response, !.file = zone,
                                       !.notified = TRUE]
               /\ hs' = hs
          ELSE /\ prov' = [prov EXCEPT !.current_zone = zone]
               /\ hs' = [hs EXCEPT ![u.response].ack = "dropped"]
  /\ UNCHANGED <<current, zone_chan, file_chan, tx, limit, acked, zoneVars, auxVars>>

\* FileZoneProvider::run lines 54-69: the watcher fired, the file is read
\* and its zone sent to the dynfile provider
FileRead ==
  /\ prov.notified
  /\ Len(file_chan) < FileChanDepth
  /\ file_chan' = Append(file_chan, prov.file)
  /\ prov' = [prov EXCEPT !.notified = FALSE]
  /\ UNCHANGED <<current, zone_chan, update_chan, hs, tx, limit, acked, zoneVars, auxVars>>

\* DynFileZoneProvider::run lines 55-60: the zone read from the file
\* replaces the provider's zone
ProviderFile ==
  /\ prov.pc = "idle"
  /\ file_chan # << >>
  /\ file_chan' = Tail(file_chan)
  /\ prov' = [prov EXCEPT !.pc = "send", !.current_zone = Head(file_chan), !.ack = 0]
  /\ UNCHANGED <<current, zone_chan, update_chan, hs, tx, limit, acked, zoneVars, auxVars>>

\* DynFileZoneProvider::run lines 50-53 and 61-63: the zone is sent to the
\* server, then the update, if any, is acknowledged
ProviderSend ==
  /\ prov.pc = "send"
  /\ Len(zone_chan) < ChanDepth
  /\ zone_chan' = Append(zone_chan, Snapshot(prov.emitted + 1, prov.current_zone))
  /\ prov' = [prov EXCEPT !.pc = "idle", !.emitted = @ + 1, !.ack = 0]
  /\ hs' = IF prov.ack = 0 THEN hs ELSE [hs EXCEPT ![prov.ack].ack = "ok"]
  /\ UNCHANGED <<current, update_chan, file_chan, tx, limit, acked, zoneVars, auxVars>>

\* a hot-swap task that installs the zone sent last and discards the rest
HotSwapNewest ==
  /\ zone_chan # << >>
  /\ current' = zone_chan[Len(zone_chan)]
  /\ zone_chan' = << >>
  /\ UNCHANGED <<update_chan, file_chan, prov, hs, tx, limit, acked, zoneVars, auxVars>>

\* Server::run lines 117-122: the hot-swap task installs the next zone
HotSwap ==
  /\ zone_chan # << >>
  /\ current' = Head(zone_chan)
  /\ zone_chan' = Tail(zone_chan)
  /\ UNCHANGED <<update_chan, file_chan, prov, hs, tx, limit, acked, zoneVars, auxVars>>

ServerStep ==
  \/ \E h \in Handlers : TcpAccept(h)
  \/ \E h \in Handlers : TcpClose(h)
  \/ \E h \in Handlers : QuestionsStep(h)
  \/ \E h \in Handlers : AdditionalStep(h)
  \/ \E h \in Handlers : AuthorityStep(h)
  \/ \E h \in Handlers : SendUpdate(h)
  \/ \E h \in Handlers : FinishUpdate(h)
  \/ ProviderUpdate
  \/ FileRead
  \/ ProviderFile
  \/ ProviderSend
  \/ HotSwap

Idle == records = << >> /\ last = NoLast /\ soaHigh = HighOf(<< >>)

Init == ServerInit(MaxTransactions) /\ Idle /\ AuxIdle

Next ==
  \/ \E h \in Handlers, req \in RaceRequests : UdpReceive(h, req)
  \/ \E h \in Handlers, req \in RaceRequests : TcpTransaction(h, req)
  \/ ServerStep

Spec == Init /\ [][Next]_vars

InitRespond == ServerInit(RespondTransactions) /\ Idle /\ AuxIdle

NextRespond ==
  \/ \E h \in Handlers, req \in PipelineRequests : UdpReceive(h, req)
  \/ \E h \in Handlers, req \in PipelineRequests : TcpTransaction(h, req)
  \/ ServerStep

SpecRespond == InitRespond /\ [][NextRespond]_vars

\* ------------------------------------------------------------------------
\* Properties of Part II: the request pipeline
\* ------------------------------------------------------------------------
\* handler h has taken a message
Started(h) == hs[h].pc # "idle"

\* the message is a request: a query header with no response code, not truncated
IsRequest(p) == ~p.tc /\ p.qr = "Query" /\ p.rcode = "NoError"

\* an update of handler h is in the update channel
InChannel(h) == \E i \in 1..Len(update_chan) : update_chan[i].response = h

\* handler h never gave the provider anything
NothingSent(h) == ~hs[h].sent /\ ~InChannel(h) /\ hs[h].update = NoUpdate /\ hs[h].ack = "none"

\* handler h answered with exactly one message, of the given response code,
\* that carries no record
AnsweredBare(h, rcode) == hs[h].pc = "done" /\ hs[h].resp.packet = << Packet(rcode) >>

\* the TSIG of the message validates against the keys of the snapshot of h
TsigValid(h) ==
  /\ hs[h].req.tsig.present
  /\ validate(hs[h].snap.zone.tsig_keys, hs[h].snap.zone.allow_md5_tsig,
              RawPacket(hs[h].req), hs[h].req.tsig).err = "none"

\* handler h holds an UPDATE request whose TSIG validated
AuthenticUpdate(h) ==
  Started(h) /\ IsRequest(hs[h].req) /\ hs[h].req.opcode = "Update" /\ TsigValid(h)

UpdateFailure(h) == do_respond_update(hs[h].snap.zone, hs[h].req).err

\* the first prerequisite of the message is "name not in use" for a name
\* the zone com holds
YxDomainCase(h) ==
  /\ hs[h].req.questions = ZoneSection
  /\ hs[h].req.answers # << >>
  /\ hs[h].req.answers[1].class = "NONE"
  /\ hs[h].req.answers[1].type = "ALL"
  /\ NameExists(UpdateZoneRecords(hs[h].snap.zone, ApexName), hs[h].req.answers[1].name)

\* C4: an authenticated UPDATE request that fails the zone-section
\* validation, a prerequisite or the prescan is answered with one message
\* whose rcode is the one mapped from the failure (FormatError, NameError,
\* NxRRSet, YxDomain or YxRRSet), and nothing of it, not even a prefix of its
\* actions, is ever sent on the update channel; a (NONE, ANY) prerequisite
\* for an existing name yields YxDomain and no actions.
C4_FailedUpdateSendsNothing ==
  \A h \in Handlers :
    /\ (AuthenticUpdate(h) /\ UpdateFailure(h) # "none") =>
         /\ AnsweredBare(h, UpdateRcode(UpdateFailure(h)))
         /\ UpdateRcode(UpdateFailure(h)) \in
              {"FormatError", "NameError", "NxRRSet", "YxDomain", "YxRRSet"}
         /\ NothingSent(h)
    /\ (AuthenticUpdate(h) /\ YxDomainCase(h)) =>
         AnsweredBare(h, "YxDomain") /\ NothingSent(h)
    /\ (hs[h].sent \/ InChannel(h)) => (AuthenticUpdate(h) /\ UpdateFailure(h) = "none")

\* an authenticated UPDATE whose update section holds an add was answered
\* YxDomain because of its (NONE, ANY) prerequisite, and nothing was sent
C4_Witness ==
  \E h \in Handlers :
    /\ AuthenticUpdate(h)
    /\ YxDomainCase(h)
    /\ hs[h].req.nameservers = << AddA >>
    /\ AnsweredBare(h, "YxDomain")
    /\ NothingSent(h)
    /\ update_chan = << >>

\* C5: an UPDATE message without a TSIG record never has a ZoneProviderUpdate
\* sent for it, whatever its sections contain, and when it is a request it is
\* answered with one message of rcode Refused.
C5_UnsignedUpdateRefused ==
  \A h \in Handlers :
    (Started(h) /\ hs[h].req.opcode = "Update" /\ ~hs[h].req.tsig.present) =>
      /\ NothingSent(h)
      /\ hs[h].pc = "done"
      /\ IsRequest(hs[h].req) =>
           (AnsweredBare(h, "Refused") /\ ~hs[h].resp.signed)

\* an UPDATE request without TSIG that would otherwise pass every validation
\* and add a record was refused, and the provider got nothing
C5_Witness ==
  \E h \in Handlers :
    /\ Started(h)
    /\ IsRequest(hs[h].req)
    /\ hs[h].req.opcode = "Update"
    /\ ~hs[h].req.tsig.present
    /\ UpdateFailure(h) = "none"
    /\ hs[h].req.nameservers = << AddA >>
    /\ AnsweredBare(h, "Refused")
    /\ NothingSent(h)
    /\ prov.emitted = 0

\* handler h holds a request detected as AXFR
AxfrRequest(h) == Started(h) /\ IsRequest(hs[h].req) /\ axfr(hs[h].req) # << >>

\* some message of the response of h carries a record in its answer section
EmitsRecords(h) ==
  \E i \in 1..Len(hs[h].resp.packet) : hs[h].resp.packet[i].answers # << >>

\* C6 as stated: an AXFR request that arrived over UDP or carried no
\* validated TSIG is answered with a single message of rcode Refused and no
\* records; zone records are emitted only over TCP with a validated TSIG.
C6_AxfrRefusedUnlessTcpAndTsig ==
  \A h \in Handlers :
    AxfrRequest(h) =>
      /\ (hs[h].kind = "udp" \/ ~TsigValid(h)) => AnsweredBare(h, "Refused")
      /\ EmitsRecords(h) => (hs[h].kind = "tcp" /\ TsigValid(h))

\* C6 (amended): an AXFR request that arrived over UDP or carried no TSIG is
\* answered with a single message of rcode Refused and no records, unless it
\* carried a TSIG that failed validation, which is answered with a single
\* message of rcode NotAuth and no zone records; zone records are emitted
\* only over TCP with a validated TSIG.
C6_AxfrGate ==
  \A h \in Handlers :
    AxfrRequest(h) =>
      /\ (hs[h].req.tsig.present /\ ~TsigValid(h)) =>
           /\ hs[h].pc = "done"
           /\ Len(hs[h].resp.packet) = 1
           /\ hs[h].resp.packet[1].rcode = "NotAuth"
           /\ ~EmitsRecords(h)
      /\ (~hs[h].req.tsig.present \/ (TsigValid(h) /\ hs[h].kind = "udp")) =>
           AnsweredBare(h, "Refused")
      /\ EmitsRecords(h) => (hs[h].kind = "tcp" /\ TsigValid(h))
      /\ NothingSent(h)

\* an AXFR request over TCP whose TSIG failed validation was answered
\* NotAuth, not Refused, without zone records
C6_Witness ==
  \E h \in Handlers :
    /\ AxfrRequest(h)
    /\ hs[h].kind = "tcp"
    /\ hs[h].req.tsig.present
    /\ ~TsigValid(h)
    /\ hs[h].pc = "done"
    /\ hs[h].resp.packet[1].rcode = "NotAuth"
    /\ ~EmitsRecords(h)

\* the checks of its TSIG the message of h fails, each told from the message
\* and the keys alone
TsigFailures(h) ==
  LET t == hs[h].req.tsig
      keys == hs[h].snap.zone.tsig_keys
  IN {f \in {"unknown algorithm", "missing key", "MAC mismatch", "time outside fudge"} :
        \/ f = "missing key" /\ t.name \notin DOMAIN keys
        \/ f = "time outside fudge"
             /\ (t.time_signed < Now - t.fudge \/ t.time_signed > Now + t.fudge)
        \/ f = "unknown algorithm" /\ t.algorithm \notin Algorithms
             /\ ~(t.algorithm = Md5 /\ hs[h].snap.zone.allow_md5_tsig)
        \/ f = "MAC mismatch" /\ t.name \in DOMAIN keys
             /\ t.mac # Hmac(keys[t.name], RawPacket(hs[h].req), t)}

ErrorCode(f) ==
  CASE f = "unknown algorithm" -> "BadKey"
    [] f = "missing key" -> "BadKey"
    [] f = "MAC mismatch" -> "BadSig"
    [] f = "time outside fudge" -> "BadTime"

\* C7: a request whose TSIG fails validation (unknown algorithm, missing
\* key, MAC mismatch or time outside fudge) is answered with one message of
\* rcode NotAuth that carries a TSIG record with the error code of a failed
\* check (BadKey, BadKey, BadSig, BadTime) and an empty MAC, the response is
\* not signed, no answer is produced and nothing is sent to the provider.
C7_TsigFailureNotAuth ==
  \A h \in Handlers :
    (Started(h) /\ IsRequest(hs[h].req) /\ hs[h].req.tsig.present
       /\ TsigFailures(h) # {}) =>
      /\ hs[h].pc = "done"
      /\ ~hs[h].resp.signed
      /\ Len(hs[h].resp.packet) = 1
      /\ hs[h].resp.packet[1].rcode = "NotAuth"
      /\ hs[h].resp.packet[1].answers = << >>
      /\ hs[h].resp.packet[1].nameservers = << >>
      /\ Len(hs[h].resp.packet[1].additional) = 1
      /\ hs[h].resp.packet[1].additional[1].type = "TSIG"
      /\ hs[h].resp.packet[1].additional[1].data.mac = << >>
      /\ hs[h].resp.packet[1].additional[1].data.error \in
           {ErrorCode(f) : f \in TsigFailures(h)}
      /\ hs[h].reads = {}
      /\ NothingSent(h)

\* an UPDATE request adding a record, whose only TSIG failure is its MAC,
\* was answered NotAuth with a BadSig TSIG record and reached no provider
C7_Witness ==
  \E h \in Handlers :
    /\ Started(h)
    /\ IsRequest(hs[h].req)
    /\ hs[h].req.opcode = "Update"
    /\ hs[h].req.nameservers = << AddA >>
    /\ TsigFailures(h) = {"MAC mismatch"}
    /\ hs[h].resp.packet[1].rcode = "NotAuth"
    /\ hs[h].resp.packet[1].additional[1].data.error = "BadSig"
    /\ NothingSent(h)

\* ------------------------------------------------------------------------
\* Properties of Part II: snapshots under concurrency
\* ------------------------------------------------------------------------
\* the zone holds the record r of an acknowledged add
HasRecord(zone, r) ==
  \E i \in 1..Len(UpdateZoneRecords(zone, r.zone_name)) :
    /\ NameEq(UpdateZoneRecords(zone, r.zone_name)[i].name, r.name)
    /\ UpdateZoneRecords(zone, r.zone_name)[i].data = r.data

\* handler h is a query handler
QueryHandler(h) == Started(h) /\ IsRequest(hs[h].req) /\ hs[h].req.opcode = "Query"

\* C8: once the NoError response to an UPDATE adding a record has been sent,
\* every query whose handling starts afterwards is answered from a snapshot
\* that contains the added record.
C8_QueryAfterAckSeesRecord ==
  \A h \in Handlers :
    QueryHandler(h) => \A r \in hs[h].after : HasRecord(hs[h].snap.zone, r)

\* C9: of two handlers, the one that started later answers from the same
\* snapshot as the other or from one the provider emitted later.
C9_LaterHandlerNotOlderSnapshot ==
  \A h1, h2 \in Handlers :
    (Started(h1) /\ Started(h2) /\ hs[h1].start < hs[h2].start) =>
      hs[h1].snap.ver <= hs[h2].snap.ver

\* C10: every lookup made while building one response reads the snapshot
\* the handler captured, whatever the hot-swap task installs meanwhile: the
\* parts built so far, and the response sent, are those respond_query builds
\* from that one snapshot.
C10_OneSnapshotPerResponse ==
  \A h \in Handlers :
    /\ hs[h].reads \subseteq {hs[h].snap.ver}
    /\ (QueryHandler(h) /\ hs[h].pc \in {"additional", "authority", "done"}) =>
         hs[h].q = QuestionsPhase(hs[h].snap.zone, hs[h].req.questions, NoAnswers)
    /\ (QueryHandler(h) /\ hs[h].pc \in {"authority", "done"}) =>
         hs[h].add = AdditionalPhase(hs[h].snap.zone, hs[h].q.answers, NoAnswers)
    /\ (QueryHandler(h) /\ hs[h].pc = "done") =>
         hs[h].resp.packet = << RespondQuery(hs[h].snap.zone, hs[h].req.questions) >>

\* a datagram handler finished a query during which a snapshot was installed
\* that would have given another response
C10_Witness ==
  \E h \in Handlers :
    /\ QueryHandler(h)
    /\ hs[h].kind = "udp"
    /\ hs[h].pc = "done"
    /\ hs[h].overtaken
    /\ hs[h].reads = {hs[h].snap.ver}
    /\ current.ver > hs[h].snap.ver
    /\ RespondQuery(current.zone, hs[h].req.questions) # hs[h].resp.packet[1]

\* ------------------------------------------------------------------------
\* Part III: single functions evaluated on inputs drawn from bounded sets
\* ------------------------------------------------------------------------
\* nothing of the server or of the zone under update moves
Still == UNCHANGED <<srvVars, zoneVars, boot, log>>

\* the server idle, one input chosen, nothing returned yet
Chosen == ServerInit(0) /\ Idle /\ boot = "tcp" /\ log = << >> /\ result = << >>

\* ------------------------------------------------------------------------
\* respond_axfr (adns-server/src/server/respond.rs)
\* ------------------------------------------------------------------------
\* records of the largest zone transferred
MaxAxfrRecords == 17

\* respond lines 319-333: the response under construction carries the id of
\* the request
Response(id) == [id |-> id] @@ Packet("NoError")

\* respond_axfr lines 263-294: the messages, given the SOA lookup's answers
AxfrMessages(response, soas, chunks) ==
  IF soas = << >> THEN << [response EXCEPT !.rcode = "ServerFailure"] >>
  ELSE << [response EXCEPT !.answers = @ \o << soas[Len(soas)] >>] >>
         \o [i \in 1..Len(chunks) |-> [response EXCEPT !.answers = @ \o chunks[i]]]
         \o << [response EXCEPT !.answers = @ \o << soas[Len(soas)] >>] >>

\* respond_axfr
respond_axfr(root_zone, axfr_name, response) ==
  IF axfr_name # EmptyName /\ Fold(axfr_name) \notin DOMAIN root_zone.zones
  THEN << [response EXCEPT !.rcode = "NameError"] >>
  ELSE AxfrMessages(response, Query(root_zone, Question(axfr_name, "SOA", "IN")).answers,
                    Chunks(UpdateZoneRecords(root_zone, axfr_name), AxfrChunk))

\* n records stored in a zone, all different
StoredRecords(n) == [i \in 1..n |-> Record(SubName, SeedTtl, TypeData("A", i))]

\* the zone tree of an input: the records in the root zone or in the zone com
AxfrZone(a) ==
  IF a.at = "root"
  THEN [InitialZone EXCEPT !.records = StoredRecords(a.n), !.soa = a.soa]
  ELSE [InitialZone EXCEPT !.zones =
          [k \in {ApexName} |-> Level(StoredRecords(a.n), a.soa, << 1 >>, TRUE)]]

AxfrInputs ==
  [n : 0..MaxAxfrRecords, id : {7, 9}, soa : {0, 1}, at : {"root", "sub"},
   name : {EmptyName, ApexName, <<"COM">>, <<"net">>}]

InitAxfr == Chosen /\ arg \in AxfrInputs

Transfer ==
  /\ result = << >>
  /\ result' = respond_axfr(AxfrZone(arg), arg.name, Response(arg.id))
  /\ arg' = arg
  /\ Still

NextAxfr == Transfer

SpecAxfr == InitAxfr /\ [][NextAxfr]_vars

\* the transfer ran and is of the zone holding the records, which has an SOA
Transferred ==
  /\ result # << >>
  /\ arg.soa # 0
  /\ Fold(arg.name) = (IF arg.at = "root" THEN EmptyName ELSE ApexName)

\* n / 8 rounded up
CeilDiv8(n) == (n + 7) \div 8

\* the answers of messages from..to of the result, joined
RECURSIVE Joined(_, _)
Joined(from, to) == IF from > to THEN << >> ELSE result[from].answers \o Joined(from + 1, to)

\* C16: a successful AXFR of a zone holding n records yields exactly
\* 2 + ceil(n/8) messages: the first has exactly one answer, the zone's SOA;
\* the middle messages carry the zone's records in stored order, 8 per message
\* except that the last of them carries between 1 and 8; the final message has
\* exactly one answer, the same SOA; every message carries the request's id.
C16_AxfrMessageSequence ==
  Transferred =>
    /\ Len(result) = 2 + CeilDiv8(arg.n)
    /\ result[1].answers = << Record(Fold(arg.name), 60, TypeData("SOA", arg.soa)) >>
    /\ result[Len(result)].answers = result[1].answers
    /\ Joined(2, Len(result) - 1) = StoredRecords(arg.n)
    /\ \A k \in 2..(Len(result) - 2) : Len(result[k].answers) = 8
    /\ Len(result) > 2 => Len(result[Len(result) - 1].answers) \in 1..8
    /\ \A k \in 1..Len(result) : result[k].id = arg.id /\ result[k].rcode = "NoError"

\* a zone of 17 records went out in five messages, the last chunk holding one
C16_Witness ==
  /\ Transferred
  /\ arg.n = 17
  /\ Len(result) = 5
  /\ Len(result[4].answers) = 1

\* ------------------------------------------------------------------------
\* PacketResponse::serialize and tsig::serialize_packet
\* ------------------------------------------------------------------------
\* what TsigMode adds to the bytes signed (calculate lines 74-91)
ModePart(name, tsig, mode) ==
  IF mode = "TimersOnly" THEN << tsig.time_signed, tsig.fudge >>
  ELSE << name, tsig.algorithm, tsig.time_signed, tsig.fudge, tsig.error >>

\* the bytes signed with the message left out
SignedBytesWithoutMessage(data, name, tsig, mode, request_mac) ==
  << request_mac, tsig.original_id, ModePart(name, tsig, mode) >>

\* calculate lines 64-93: the bytes signed; request_mac is << >> for None
\* and << mac >> for Some(mac); the id of the message is left out and
\* original_id stands in its place
SignedBytes(data, name, tsig, mode, request_mac) ==
  << request_mac, tsig.original_id, data, ModePart(name, tsig, mode) >>

\* tsig::calculate with the mode and the request MAC of the call
calculate_mode(keys, allow_md5, data, name, tsig, mode, request_mac) ==
  IF name \notin DOMAIN keys THEN [err |-> "MissingKey", mac |-> << >>]
  ELSE IF Now - tsig.fudge > tsig.time_signed \/ Now + tsig.fudge < tsig.time_signed
  THEN [err |-> "TimeMismatch", mac |-> << >>]
  ELSE IF tsig.algorithm \notin Algorithms /\ ~(tsig.algorithm = Md5 /\ allow_md5)
  THEN [err |-> "UnknownAlgorithm", mac |-> << >>]
  ELSE [err |-> "none",
        mac |-> << keys[name], tsig.algorithm,
                   SignedBytes(data, name, tsig, mode, request_mac) >>]

\* the message without its id, as calculate reads it from offset 2 on
Body(packet) == [f \in DOMAIN packet \ {"id"} |-> packet[f]]

\* serialize_packet lines 156-164: the TSIG data of a response
ResponseTsig(packet, algorithm) ==
  [algorithm |-> algorithm, time_signed |-> Now, fudge |-> Fudge, mac |-> << >>,
   original_id |-> packet.id, error |-> "NoError"]

\* serialize_packet lines 165-181: the TSIG record appended and the MAC returned
Sealed(packet, name, data, c) ==
  [packet |-> packet,
   tsig |-> IF c.err = "none" THEN [data EXCEPT !.mac = c.mac]
            ELSE [data EXCEPT !.error = to_record(c.err, [name |-> name] @@ data).data.error],
   mac |-> c.mac]

\* tsig::serialize_packet
serialize_packet(keys, packet, name, algorithm, allow_md5, mode, request_mac) ==
  Sealed(packet, name, ResponseTsig(packet, algorithm),
         calculate_mode(keys, allow_md5, Body(packet), name,
                        ResponseTsig(packet, algorithm), mode, request_mac))

\* the response is signed in Normal mode throughout
ModeOfAlwaysNormal(i) == "Normal"

\* PacketResponse::serialize lines 103-108
ModeOf(i) == IF i = 0 THEN "Normal" ELSE "TimersOnly"

RECURSIVE SerializeFrom(_, _, _, _, _)
\* PacketResponse::serialize lines 100-124, from message i (counted from 0) on
SerializeFrom(zone, info, packets, i, previous_mac) ==
  IF i >= Len(packets) THEN << >>
  ELSE << serialize_packet(zone.tsig_keys, packets[i + 1], info.name, info.algorithm,
                           zone.allow_md5_tsig, ModeOf(i), << previous_mac >>) >>
       \o SerializeFrom(zone, info, packets, i + 1,
            serialize_packet(zone.tsig_keys, packets[i + 1], info.name, info.algorithm,
                             zone.allow_md5_tsig, ModeOf(i), << previous_mac >>).mac)

\* PacketResponse::serialize; tsig_info None leaves the messages unsigned
serialize(zone, info, packets) ==
  IF ~info.present
  THEN [i \in 1..Len(packets) |-> [packet |-> packets[i], tsig |-> << >>, mac |-> << >>]]
  ELSE SerializeFrom(zone, info, packets, 0, info.request_mac)

\* records of the zones whose transfer is serialized: 2 to 5 messages
SerializeSizes == {0, 8, 9, 17}

SerializeInputs ==
  [n : SerializeSizes, id : {7, 9}, present : BOOLEAN,
   name : {KeyName, "k2"}, algorithm : {Sha256, "hmac-sha1", Md5},
   request_mac : {<<"m", 1>>, <<"m", 2>>, << >>}]

InitSerialize == Chosen /\ arg \in SerializeInputs

\* the messages of the transfer serialized
TransferMessages(a) ==
  respond_axfr(AxfrZone([n |-> a.n, soa |-> 1, at |-> "sub"]), ApexName, Response(a.id))

Serialize ==
  /\ result = << >>
  /\ result' = serialize(InitialZone, arg, TransferMessages(arg))
  /\ arg' = arg
  /\ Still

NextSerialize == Serialize

SpecSerialize == InitSerialize /\ [][NextSerialize]_vars

\* the response was serialized for a request whose TSIG validated: the key
\* is in the key table and the algorithm is supported
Authenticated ==
  /\ result # << >>
  /\ arg.present
  /\ arg.name \in DOMAIN InitialZone.tsig_keys
  /\ arg.algorithm \in Algorithms

\* the MAC of message k under the given mode and request MAC
ChainMac(k, mode, request_mac) ==
  << InitialZone.tsig_keys[arg.name], arg.algorithm,
     << << request_mac >>, arg.id, Body(TransferMessages(arg)[k]),
        ModePart(arg.name, ResponseTsig(TransferMessages(arg)[k], arg.algorithm), mode) >> >>

\* C17: when a TSIG-authenticated multi-message response is serialized,
\* message 1 is signed in Normal mode with the request's MAC as request_mac,
\* and each message k > 1 is signed in TimersOnly mode with the MAC produced
\* for message k-1 as its request_mac: the MACs form a chain in message order.
C17_TsigMacChain ==
  Authenticated =>
    /\ Len(result) = Len(TransferMessages(arg))
    /\ result[1].mac = ChainMac(1, "Normal", arg.request_mac)
    /\ result[1].tsig.mac = result[1].mac
    /\ \A k \in 2..Len(result) :
         /\ result[k].mac = ChainMac(k, "TimersOnly", result[k - 1].mac)
         /\ result[k].tsig.mac = result[k].mac
         /\ result[k].mac # ChainMac(k, "Normal", result[k - 1].mac)
         /\ result[k].mac # ChainMac(k, "TimersOnly", arg.request_mac)

\* a signed transfer of five messages was serialized
C17_Witness ==
  /\ Authenticated
  /\ Len(result) = 5
  /\ arg.request_mac # << >>
  /\ result[5].mac # << >>

\* ------------------------------------------------------------------------
\* do_respond_update (adns-server/src/server/respond_update.rs)
\* ------------------------------------------------------------------------
\* entries of the longest prerequisite section evaluated
MaxPrereqs == 2

\* record lists of the zone the UPDATE names
StoredCases ==
  { << >>,
    << Record(SubName, SeedTtl, TypeData("A", 1)) >>,
    << Record(SubNameUpper, SeedTtl, TypeData("A", 1)) >>,
    << Record(SubName, SeedTtl, TypeData("A", 1)), Record(SubName, SeedTtl, TypeData("A", 2)) >>,
    << Record(SubName, SeedTtl, TypeData("A", 1)), Record(ApexName, SeedTtl, TypeData("MX", 2)) >>,
    << Record(ApexName, SeedTtl, TypeData("MX", 2)) >> }

\* prerequisite entries: the four forms of class ANY and NONE, entries of the
\* zone's class, a non-zero TTL, a foreign class
PrereqEntries ==
  { Empty(SubName, "ALL", "ALL", 0),
    Empty(SubName, "A", "ALL", 0),
    Empty(SubName, "ALL", "NONE", 0),
    Empty(SubName, "A", "NONE", 0),
    Empty(ApexName, "MX", "NONE", 0),
    Empty(SubName, "ALL", "ALL", 5),
    WireRecord(SubName, "A", "IN", 0, TypeData("A", 1)),
    WireRecord(SubName, "A", "IN", 0, TypeData("A", 2)),
    WireRecord(SubName, "A", "IN", 5, TypeData("A", 1)),
    Empty(SubName, "A", "CH", 0) }

RECURSIVE SeqsUpTo(_, _)
\* the sequences over S of length at most n
SeqsUpTo(S, n) ==
  IF n = 0 THEN { << >> }
  ELSE SeqsUpTo(S, n - 1) \cup {Append(q, x) : q \in SeqsUpTo(S, n - 1), x \in S}

\* update sections of well-formed adds, at owners inside and outside com, and
\* of the three forms of delete
AddCases ==
  { << >>,
    << Empty(SubName, "ALL", "ALL", 0) >>,
    << Empty(SubName, "A", "ALL", 0) >>,
    << WireRecord(SubName, "A", "NONE", 0, TypeData("A", 1)) >>,
    << Empty(SubName, "A", "ALL", 0), AddA,
       WireRecord(SubName, "A", "NONE", 0, TypeData("A", 2)), Empty(ApexName, "ALL", "ALL", 0) >>,
    << AddA >>,
    << WireRecord(SubNameUpper, "A", "IN", SeedTtl, TypeData("A", 1)) >>,
    << WireRecord(<<"a", "COM">>, "A", "IN", SeedTtl, TypeData("A", 1)) >>,
    << WireRecord(ApexName, "A", "IN", SeedTtl, TypeData("A", 1)) >>,
    << WireRecord(OrgName, "A", "IN", SeedTtl, TypeData("A", 1)) >>,
    << AddA, WireRecord(<<"a", "org">>, "A", "IN", SeedTtl, TypeData("A", 1)) >> }

\* the zone section names the zone com, the root zone, or a zone not stored
UpdateInputs ==
  [at : {"sub", "root", "missing"}, stored : StoredCases,
   prereqs : SeqsUpTo(PrereqEntries, MaxPrereqs), updates : AddCases]

\* the name in the zone section of an input
SectionName(a) ==
  CASE a.at = "sub" -> ApexName [] a.at = "root" -> EmptyName [] a.at = "missing" -> NetName

\* the zone tree of an input
UpdateZone(a) ==
  IF a.at = "root" THEN [InitialZone EXCEPT !.records = a.stored]
  ELSE [InitialZone EXCEPT !.zones = [k \in {ApexName} |-> Level(a.stored, 1, << 1 >>, TRUE)]]

UpdateRequest(a) ==
  UpdateMsg(<< Question(SectionName(a), "SOA", "IN") >>, a.prereqs, a.updates)

InitUpdate == Chosen /\ arg \in UpdateInputs

Evaluate ==
  /\ result = << >>
  /\ result' = [done |-> TRUE,
                err |-> do_respond_update(UpdateZone(arg), UpdateRequest(arg)).err,
                rcode |-> UpdateRcode(do_respond_update(UpdateZone(arg), UpdateRequest(arg)).err),
                update |-> do_respond_update(UpdateZone(arg), UpdateRequest(arg)).update]
  /\ arg' = arg
  /\ Still

NextUpdate == Evaluate

SpecUpdate == InitUpdate /\ [][NextUpdate]_vars

\* the UPDATE of the input was evaluated
Evaluated == result # << >>

\* the records of the zone the input's zone section names
Stored == IF arg.at = "missing" THEN << >> ELSE arg.stored

WellFormed(p) == p.ttl = 0 /\ p.data = OtherData(p.type)

\* prerequisite p of class ANY or NONE holds in the zone
Holds(p) ==
  CASE p.class = "ALL" /\ p.type = "ALL" -> NameExists(Stored, p.name)
    [] p.class = "ALL" /\ p.type # "ALL" -> RRSetExists(Stored, p.name, p.type)
    [] p.class = "NONE" /\ p.type = "ALL" -> ~NameExists(Stored, p.name)
    [] p.class = "NONE" /\ p.type # "ALL" -> ~RRSetExists(Stored, p.name, p.type)
    [] OTHER -> FALSE

\* the response code of a prerequisite of class ANY or NONE that does not hold
FailureCode(p) ==
  CASE p.class = "ALL" /\ p.type = "ALL" -> "NameError"
    [] p.class = "ALL" /\ p.type # "ALL" -> "NxRRSet"
    [] p.class = "NONE" /\ p.type = "ALL" -> "YxDomain"
    [] p.class = "NONE" /\ p.type # "ALL" -> "YxRRSet"
    [] OTHER -> "FormatError"

\* the zone holds the very record a prerequisite of the zone's class gives
Stores(p) ==
  \E i \in 1..Len(Stored) :
    /\ NameEq(Stored[i].name, p.name)
    /\ Stored[i].type = p.type
    /\ Stored[i].data = p.data

\* the response code prerequisite p yields when taken alone, "none" when it
\* passes; exact: a prerequisite of the zone's class is compared on the spot
CodeOf(p, exact) ==
  IF p.class \in {"ALL", "NONE"}
  THEN IF ~Holds(p) THEN FailureCode(p)
       ELSE IF ~WellFormed(p) THEN "FormatError"
       ELSE "none"
  ELSE IF p.class # "IN" \/ p.ttl # 0 THEN "FormatError"
  ELSE IF exact /\ ~Stores(p) THEN "NxRRSet"
  ELSE "none"

\* the first prerequisite of the input that yields a response code, 0 for none
FirstFailing(exact) ==
  FirstOf({i \in 1..Len(arg.prereqs) : CodeOf(arg.prereqs[i], exact) # "none"})

\* C18 (as stated): UPDATE prerequisites are evaluated in message order
\* against the records of the zone named in the zone section, and the first
\* failing one determines the rcode: (ANY, ANY) fails with NameError iff no
\* record has that owner name, (ANY, T) with NxRRSet iff no record has that
\* name and type, (NONE, ANY) with YxDomain iff some record has that name,
\* (NONE, T) with YxRRSet iff some record has that name and type.
C18_FirstFailingPrerequisite ==
  (Evaluated /\ FirstFailing(TRUE) # 0) =>
     result.rcode = CodeOf(arg.prereqs[FirstFailing(TRUE)], TRUE)

\* C18 (amended): the prerequisites of class ANY and NONE are evaluated in
\* message order and the first of them that fails determines the rcode, with
\* the four conditions as stated; a prerequisite of the zone's class is only
\* collected in that pass (TTL checked), its exact-RRset comparison is made
\* after every entry has been evaluated, so a failing one that comes earlier
\* in the message does not determine the rcode.
C18_FirstFailingAnyNone ==
  Evaluated =>
    /\ FirstFailing(FALSE) # 0 =>
         result.rcode = CodeOf(arg.prereqs[FirstFailing(FALSE)], FALSE)
    /\ (FirstFailing(FALSE) = 0 /\ ClassPrereqs("IN", arg.prereqs) = << >>) =>
         result.rcode \notin {"NameError", "NxRRSet", "YxDomain", "YxRRSet"}

\* a (NONE, ANY) prerequisite for a name in use came second, after a
\* prerequisite of the zone's class that the zone does not store, and the
\* response code is YxDomain
C18_Witness ==
  /\ Evaluated
  /\ Len(arg.prereqs) = 2
  /\ arg.prereqs[1].class = "IN" /\ arg.prereqs[1].ttl = 0 /\ ~Stores(arg.prereqs[1])
  /\ arg.prereqs[2].class = "NONE" /\ arg.prereqs[2].type = "ALL"
  /\ NameExists(Stored, arg.prereqs[2].name)
  /\ result.rcode = "YxDomain"

\* the (name, type) pairs the prerequisites of the zone's class name
NamedSets ==
  {<<Fold(p.name), p.type>> : p \in {arg.prereqs[i] : i \in 1..Len(arg.prereqs)} \cap
                                    {q \in PrereqEntries : q.class = "IN"}}

\* the (type, name, data) triples of a record list at one (name, type)
TriplesAt(recs, nt) ==
  {RRKey(recs[i]) : i \in {j \in 1..Len(recs) : <<Fold(recs[j].name), recs[j].type>> = nt}}

\* for each RRset the prerequisites of the zone's class name, the zone's
\* RRset is exactly the set the prerequisites give
NamedSetsEqual ==
  \A nt \in NamedSets :
    TriplesAt(Stored, nt) = TriplesAt(ClassPrereqs("IN", arg.prereqs), nt)

\* C19: for prerequisites whose class equals the zone's class, the check
\* passes iff, for each (name, type) RRset named by those prerequisites, the
\* zone's RRset at that name and type equals exactly the set of (type, name,
\* data) given by the prerequisites; otherwise the response is NxRRSet. Zone
\* records at names or types not named by any such prerequisite do not affect
\* the outcome.
C19_ExactRRSetPerNamedSet ==
  (Evaluated /\ FirstFailing(FALSE) = 0 /\ ClassPrereqs("IN", arg.prereqs) # << >>) =>
     IF NamedSetsEqual
     THEN result.rcode \notin {"NameError", "NxRRSet", "YxDomain", "YxRRSet"}
     ELSE result.rcode = "NxRRSet"

\* the owner name lies within the zone: its trailing labels are the zone's
\* labels, ignoring ASCII case; every name lies within the root zone
InZone(owner, zone) ==
  /\ Len(owner) >= Len(zone)
  /\ \A i \in 0..(Len(zone) - 1) :
       FoldLabel(owner[Len(owner) - i]) = FoldLabel(zone[Len(zone) - i])

\* C20: in the update prescan, every update-section record whose owner name
\* lies within the zone named in the zone section passes the in-zone check,
\* and any record whose owner lies outside that zone causes the whole UPDATE
\* to be rejected with FormatError; when the zone section names the root zone
\* (empty name), every owner name lies within the zone.
C20_InZoneCheck ==
  (Evaluated /\ arg.prereqs = << >>) =>
     IF \A i \in 1..Len(arg.updates) : InZone(arg.updates[i].name, SectionName(arg))
     THEN result.err = "none"
     ELSE result.err = "RecordNotZoned" /\ result.rcode = "FormatError"

\* ------------------------------------------------------------------------
\* Part IV: the start-up of the server and the zone providers
\* (adns-server/src/server/mod.rs, zone_provider/*.rs, db/mod.rs)
\* ------------------------------------------------------------------------
\* MAX_UPDATE_RETRY of the database provider
MaxUpdateRetry == 3

\* transactions of a run of the provider scenario
ProviderTransactions == 2

\* StaticZoneProvider, DynFileZoneProvider, DbZoneProvider, and
\* MergeZoneProvider over a DynFile top and a File bottom with SendUpdates::ToTop
Providers == {"static", "dynfile", "db", "merge"}

\* Zone::default()
DefaultZone ==
  [records |-> << >>, soa |-> 0, nameservers |-> << >>, authoritative |-> FALSE,
   zones |-> [k \in {} |-> DefaultLevel], tsig_keys |-> [k \in {} |-> ""],
   allow_md5_tsig |-> FALSE, class |-> "IN"]

\* Some(zone), with the ids of the updates whose actions the zone has seen
Held(zone, ids) == [some |-> TRUE, zone |-> zone, ids |-> ids]

\* None::<Zone>
NoZone == [some |-> FALSE, zone |-> DefaultZone, ids |-> {}]

\* no ZoneProviderUpdate in hand
NoEntry == [update |-> NoUpdate, response |-> 0, id |-> 0]

\* the application of an update a provider made last
NoApply == [id |-> 0, before |-> DefaultZone, after |-> DefaultZone]

\* Zone::merge_from: the records of `added` as AddRecord actions on recs
AddAll(name, recs, added) ==
  ApplyActions(name, recs, [i \in 1..Len(added) |-> AddRecordAction(added[i])])

\* a merge that appends the records of `other` as they are
MergeAppending(self, other) ==
  [self EXCEPT
     !.records = self.records \o other.records,
     !.zones = [k \in DOMAIN self.zones \cup DOMAIN other.zones |->
                  IF k \in DOMAIN self.zones /\ k \in DOMAIN other.zones
                  THEN [self.zones[k] EXCEPT !.records = @ \o other.zones[k].records]
                  ELSE IF k \in DOMAIN self.zones THEN self.zones[k]
                  ELSE other.zones[k]]]

\* Zone::merge_from
merge_from(self, other) ==
  [self EXCEPT
     !.records = AddAll(EmptyName, self.records, other.records),
     !.zones = [k \in DOMAIN self.zones \cup DOMAIN other.zones |->
                  IF k \in DOMAIN self.zones /\ k \in DOMAIN other.zones
                  THEN [self.zones[k] EXCEPT
                          !.records = AddAll(k, self.zones[k].records, other.zones[k].records)]
                  ELSE IF k \in DOMAIN self.zones THEN self.zones[k]
                  ELSE other.zones[k]]]

\* the provider task Server::new spawns, before it has run
ProviderStart(kind) ==
  [kind |-> kind,
   alive |-> TRUE,          \* the task runs and holds the sender of zones
   open |-> TRUE,           \* the receiver of updates has not been dropped
   pc |-> IF kind = "db" THEN "idle" ELSE "start",
   current_zone |-> NoZone, \* dynfile: current_zone
   file |-> Held(IF kind = "merge" THEN DefaultZone ELSE InitialZone, {}),
   notified |-> FALSE,      \* dynfile: the file provider has a read to make; db: notifier
   ack |-> 0, ack_id |-> 0, \* dynfile: the one-shot of the update in hand
   db |-> Held(InitialZone, {}),
   upd |-> NoEntry, attempt |-> 0,
   lpc |-> "initial", load |-> NoZone,
   top_updates |-> << >>, top_zones |-> << >>, bottom_zones |-> << >>,
   send_updates |-> "ToTop", \* merge: SendUpdates
   bottom_updates |-> << >>, \* merge: the channel of updates of the bottom provider
   bottom_open |-> TRUE,     \* merge: the bottom provider holds its receiver of updates
   top |-> NoZone, bottom |-> NoZone, mpc |-> "idle", bottom_sent |-> FALSE,
   emitted |-> 0,
   applied |-> << >>,       \* <<id, k>>: action k of update id, in the order applied
   reflected |-> {},        \* updates seen by a zone the provider has sent
   failed |-> {},           \* updates the provider failed to persist
   last |-> NoApply]

InitProvider ==
  /\ current = Snapshot(0, DefaultZone)
  /\ zone_chan = << >>
  /\ update_chan = << >>
  /\ file_chan = << >>
  /\ prov \in {ProviderStart(k) : k \in Providers}
  /\ hs = [h \in Handlers |-> FreeHandler]
  /\ tx = 0
  /\ limit = ProviderTransactions
  /\ acked = {}
  /\ Idle
  /\ boot = "waiting"
  /\ log = << >>
  /\ arg = << >>
  /\ result = << >>

\* the server has a socket bound
Listening == {"udp", "tcp", "udp_only"}

\* Server::run can bind its sockets: the initial zone is installed
ReadyAlways(b) == b \in {"waiting", "loaded"}

Ready(b) == b = "loaded"

\* Server::run lines 96-99: the first zone is received and installed
InstallInitial ==
  /\ boot = "waiting"
  /\ zone_chan # << >>
  /\ current' = Head(zone_chan)
  /\ zone_chan' = Tail(zone_chan)
  /\ boot' = "loaded"
  /\ UNCHANGED <<update_chan, file_chan, prov, hs, tx, limit, acked, zoneVars, log, arg, result>>

\* Server::run lines 100-103: the provider died before it sent a zone
BootFails ==
  /\ boot = "waiting"
  /\ zone_chan = << >>
  /\ ~prov.alive
  /\ boot' = "stopped"
  /\ UNCHANGED <<srvVars, zoneVars, log, arg, result>>

\* Server::run lines 106-166: the UDP socket is bound, the hot-swap task and
\* the UDP task are spawned; a failed bind ends run
BindUdp ==
  /\ Ready(boot)
  /\ \E ok \in BOOLEAN : boot' = IF ok THEN "udp" ELSE "stopped"
  /\ UNCHANGED <<srvVars, zoneVars, log, arg, result>>

\* Server::run lines 167-189: the TCP socket is bound; a failed bind ends
\* run and leaves the tasks spawned before it running
BindTcp ==
  /\ boot = "udp"
  /\ \E ok \in BOOLEAN : boot' = IF ok THEN "tcp" ELSE "udp_only"
  /\ UNCHANGED <<srvVars, zoneVars, log, arg, result>>

\* respond lines 429-437: the update is placed on the update channel
Enqueue(h) ==
  /\ hs[h].pc = "send"
  /\ prov.open
  /\ Len(update_chan) < ChanDepth
  /\ update_chan' = Append(update_chan,
       [update |-> hs[h].update, response |-> h, id |-> hs[h].start])
  /\ log' = Append(log, [id |-> hs[h].start, update |-> hs[h].update])
  /\ hs' = [hs EXCEPT ![h].pc = "await", ![h].ack = "pending", ![h].sent = TRUE]
  /\ UNCHANGED <<current, zone_chan, file_chan, prov, tx, limit, acked, zoneVars, boot, arg, result>>

\* respond lines 431-447: the receiver of updates is gone, the send fails
EnqueueFails(h) ==
  /\ hs[h].pc = "send"
  /\ ~prov.open
  /\ hs' = [hs EXCEPT ![h].pc = "done", ![h].resp.packet = << Packet("ServerFailure") >>]
  /\ UNCHANGED <<current, zone_chan, update_chan, file_chan, prov, tx, limit, acked, zoneVars, auxVars>>

\* StaticZoneProvider::run: the receiver of updates is dropped, the zone sent
StaticRun ==
  /\ prov.kind = "static"
  /\ prov.pc = "start"
  /\ zone_chan' = Append(zone_chan, Snapshot(1, InitialZone))
  /\ prov' = [prov EXCEPT !.pc = "pending", !.open = FALSE, !.emitted = 1]
  /\ UNCHANGED <<current, update_chan, file_chan, hs, tx, limit, acked, zoneVars, auxVars>>

\* the provider that applies updates to a file
DynFile == prov.kind \in {"dynfile", "merge"}

\* DynFileZoneProvider::run lines 18-32: the zone file is created when it is
\* missing (a failure panics the task), the file provider is spawned
DynFileCreate ==
  /\ DynFile
  /\ prov.pc = "start"
  /\ \E ok \in BOOLEAN :
       prov' = IF ok THEN [prov EXCEPT !.pc = "idle", !.notified = TRUE]
               ELSE [prov EXCEPT !.pc = "dead", !.alive = FALSE, !.open = FALSE]
  /\ UNCHANGED <<current, zone_chan, update_chan, file_chan, hs, tx, limit, acked, zoneVars, auxVars>>

\* the channel the dynfile provider receives updates from
Updates == IF prov.kind = "merge" THEN prov.top_updates ELSE update_chan

\* mpsc::Receiver::recv takes the message sent last
recvNewest(q) == q[Len(q)]

\* mpsc::Receiver::recv: the oldest message of the channel
recv(q) == Head(q)

\* <<id, 1>> .. <<id, n>> for the n actions of an update
Steps(u) == [k \in 1..Len(u.update.actions) |-> <<u.id, k>>]

\* the one-shot of an update whose file write failed is signalled all the same
WriteOutcomeAlwaysAcks(p, u, written) == [p EXCEPT !.pc = "send", !.ack = u.response, !.ack_id = u.id,
                                                   !.failed = IF written THEN @ ELSE @ \cup {u.id}]

\* DynFileZoneProvider::run lines 46-49: the zone file is written; on an
\* error the update is dropped with its one-shot
WriteOutcome(p, u, written) ==
  IF written
  THEN [p EXCEPT !.pc = "send", !.ack = u.response, !.ack_id = u.id,
                 !.file = p.current_zone, !.notified = TRUE]
  ELSE [p EXCEPT !.failed = @ \cup {u.id}]

\* DynFileZoneProvider::run line 45: update.update.apply_to(current_zone)
DynFileApply(p, u) ==
  [p EXCEPT !.current_zone = Held(ApplyUpdate(p.current_zone.zone, u.update),
                                  p.current_zone.ids \cup {u.id}),
            !.applied = @ \o Steps(u),
            !.last = [id |-> u.id, before |-> p.current_zone.zone,
                      after |-> ApplyUpdate(p.current_zone.zone, u.update)]]

\* the provider with the update it received taken off its channel
Taken(p) == IF p.kind = "merge" THEN [p EXCEPT !.top_updates = Tail(@)] ELSE p

\* DynFileZoneProvider::run lines 36-49: an update is received; it is
\* discarded when no zone is loaded, else applied and the file written
DynFileUpdate ==
  /\ DynFile
  /\ prov.alive
  /\ prov.pc = "idle"
  /\ Updates # << >>
  /\ \E written \in BOOLEAN :
       /\ prov' = IF prov.current_zone.some
                  THEN Taken(WriteOutcome(DynFileApply(prov, recv(Updates)), recv(Updates), written))
                  ELSE Taken(prov)
       /\ hs' = IF Taken(WriteOutcome(prov, recv(Updates), written)).pc = "send" /\ prov.current_zone.some
                THEN hs
                ELSE [hs EXCEPT ![recv(Updates).response].ack = "dropped"]
  /\ update_chan' = IF prov.kind = "merge" THEN update_chan ELSE Tail(update_chan)
  /\ UNCHANGED <<current, zone_chan, file_chan, tx, limit, acked, zoneVars, auxVars>>

\* the dynfile provider after its send: the zone sent reflects its updates
Sent(p) ==
  [p EXCEPT !.pc = "idle", !.ack = 0, !.ack_id = 0,
            !.reflected = @ \cup p.current_zone.ids]

\* DynFileZoneProvider::run lines 50-53 and 61-63: the zone is sent on the
\* provider's channel of zones, then the update in hand is acknowledged
DynFileSend ==
  /\ DynFile
  /\ prov.alive
  /\ prov.pc = "send"
  /\ IF prov.kind = "merge"
     THEN /\ Len(prov.top_zones) < ChanDepth
          /\ prov' = [Sent(prov) EXCEPT !.top_zones = Append(@, prov.current_zone)]
          /\ zone_chan' = zone_chan
     ELSE /\ Len(zone_chan) < ChanDepth
          /\ prov' = [Sent(prov) EXCEPT !.emitted = @ + 1]
          /\ zone_chan' = Append(zone_chan, Snapshot(prov.emitted + 1, prov.current_zone.zone))
  /\ hs' = IF prov.ack = 0 THEN hs ELSE [hs EXCEPT ![prov.ack].ack = "ok"]
  /\ UNCHANGED <<current, update_chan, file_chan, tx, limit, acked, zoneVars, auxVars>>

\* the handlers whose one-shot is in an update of the queue q
Responders(q) == {q[i].response : i \in DOMAIN q}

\* FileZoneProvider::run lines 26-41 as the bottom of the merge provider:
\* the receiver of updates is dropped, and with it the updates it holds;
\* the zone file is read and sent
BottomRun ==
  /\ prov.kind = "merge"
  /\ prov.alive
  /\ ~prov.bottom_sent
  /\ prov' = [prov EXCEPT !.bottom_sent = TRUE, !.bottom_open = FALSE,
                          !.bottom_updates = << >>,
                          !.bottom_zones = Append(@, Held(InitialZone, {}))]
  /\ hs' = [h \in DOMAIN hs |->
             IF h \in Responders(prov.bottom_updates) THEN [hs[h] EXCEPT !.ack = "dropped"]
             ELSE hs[h]]
  /\ UNCHANGED <<current, zone_chan, update_chan, file_chan, tx, limit, acked, zoneVars, auxVars>>

\* the zone merged on the first arrival is sent again on the later ones
MergedOnce(p) ==
  IF p.top.some /\ p.bottom.some
  THEN [p EXCEPT !.mpc = "send",
                 !.load = IF p.load.some THEN p.load
                          ELSE Held(merge_from(p.bottom.zone, p.top.zone), p.top.ids)]
  ELSE p

\* MergeZoneProvider::run lines 59-65 and 72-78: with both zones known the
\* bottom zone with the top zone merged into it is to be sent
Merged(p) ==
  IF p.top.some /\ p.bottom.some
  THEN [p EXCEPT !.mpc = "send",
                 !.load = Held(merge_from(p.bottom.zone, p.top.zone), p.top.ids)]
  ELSE p

\* MergeZoneProvider::run lines 54-66: a zone of the top provider
MergeTop ==
  /\ prov.kind = "merge"
  /\ prov.alive
  /\ prov.mpc = "idle"
  /\ prov.top_zones # << >>
  /\ prov' = Merged([prov EXCEPT !.top = Head(prov.top_zones), !.top_zones = Tail(@)])
  /\ UNCHANGED <<current, zone_chan, update_chan, file_chan, hs, tx, limit, acked, zoneVars, auxVars>>

\* MergeZoneProvider::run lines 67-79: a zone of the bottom provider
MergeBottom ==
  /\ prov.kind = "merge"
  /\ prov.alive
  /\ prov.mpc = "idle"
  /\ prov.bottom_zones # << >>
  /\ prov' = Merged([prov EXCEPT !.bottom = Head(prov.bottom_zones), !.bottom_zones = Tail(@)])
  /\ UNCHANGED <<current, zone_chan, update_chan, file_chan, hs, tx, limit, acked, zoneVars, auxVars>>

\* MergeZoneProvider::run lines 62 and 75: sender.send(zone)
MergeSend ==
  /\ prov.kind = "merge"
  /\ prov.mpc = "send"
  /\ Len(zone_chan) < ChanDepth
  /\ zone_chan' = Append(zone_chan, Snapshot(prov.emitted + 1, prov.load.zone))
  /\ prov' = [prov EXCEPT !.mpc = "idle", !.emitted = @ + 1]
  /\ UNCHANGED <<current, update_chan, file_chan, hs, tx, limit, acked, zoneVars, auxVars>>

\* MergeZoneProvider::run lines 80-83: an update is received
MergeUpdate ==
  /\ prov.kind = "merge"
  /\ prov.alive
  /\ prov.mpc = "idle"
  /\ update_chan # << >>
  /\ prov' = [prov EXCEPT !.mpc = "forward", !.upd = recv(update_chan)]
  /\ update_chan' = Tail(update_chan)
  /\ UNCHANGED <<current, zone_chan, file_chan, hs, tx, limit, acked, zoneVars, auxVars>>

\* every update is sent to the top provider
MergeForwardToTop ==
  /\ prov.kind = "merge"
  /\ prov.mpc = "forward"
  /\ Len(prov.top_updates) < ChanDepth
  /\ prov' = [prov EXCEPT !.mpc = "idle", !.upd = NoEntry,
                          !.top_updates = Append(@, prov.upd)]
  /\ UNCHANGED <<current, zone_chan, update_chan, file_chan, hs, tx, limit, acked, zoneVars, auxVars>>

\* MergeZoneProvider::run lines 84-91: the update is sent to the provider
\* send_updates selects; a send to a dropped receiver fails and the update
\* is dropped with its one-shot
MergeForward ==
  /\ prov.kind = "merge"
  /\ prov.mpc = "forward"
  /\ IF prov.send_updates = "ToTop"
     THEN /\ Len(prov.top_updates) < ChanDepth
          /\ prov' = [prov EXCEPT !.mpc = "idle", !.upd = NoEntry,
                                  !.top_updates = Append(@, prov.upd)]
          /\ hs' = hs
     ELSE IF prov.bottom_open
     THEN /\ Len(prov.bottom_updates) < ChanDepth
          /\ prov' = [prov EXCEPT !.mpc = "idle", !.upd = NoEntry,
                                  !.bottom_updates = Append(@, prov.upd)]
          /\ hs' = hs
     ELSE /\ prov' = [prov EXCEPT !.mpc = "idle", !.upd = NoEntry]
          /\ hs' = [hs EXCEPT ![prov.upd.response].ack = "dropped"]
  /\ UNCHANGED <<current, zone_chan, update_chan, file_chan, tx, limit, acked, zoneVars, auxVars>>

\* DbZoneProvider::run lines 198-211: the initial zone is loaded
DbInitial ==
  /\ prov.kind = "db"
  /\ prov.lpc = "initial"
  /\ prov' = [prov EXCEPT !.lpc = "send", !.load = prov.db]
  /\ UNCHANGED <<current, zone_chan, update_chan, file_chan, hs, tx, limit, acked, zoneVars, auxVars>>

\* DbZoneProvider::run lines 201 and 216: sender.send(zone)
DbSend ==
  /\ prov.kind = "db"
  /\ prov.lpc = "send"
  /\ Len(zone_chan) < ChanDepth
  /\ zone_chan' = Append(zone_chan, Snapshot(prov.emitted + 1, prov.load.zone))
  /\ prov' = [prov EXCEPT !.lpc = "wait", !.emitted = @ + 1,
                          !.reflected = @ \cup prov.load.ids]
  /\ UNCHANGED <<current, update_chan, file_chan, hs, tx, limit, acked, zoneVars, auxVars>>

\* DbZoneProvider::run lines 213-223: a notification arrived, the zone is
\* loaded again; a failed load is skipped
DbReload ==
  /\ prov.kind = "db"
  /\ prov.lpc = "wait"
  /\ prov.notified
  /\ \E ok \in BOOLEAN :
       prov' = IF ok THEN [prov EXCEPT !.notified = FALSE, !.lpc = "send", !.load = prov.db]
               ELSE [prov EXCEPT !.notified = FALSE]
  /\ UNCHANGED <<current, zone_chan, update_chan, file_chan, hs, tx, limit, acked, zoneVars, auxVars>>

\* DbZoneProvider::run lines 174-175: the updater task receives an update
DbUpdate ==
  /\ prov.kind = "db"
  /\ prov.pc = "idle"
  /\ update_chan # << >>
  /\ prov' = [prov EXCEPT !.pc = "try", !.upd = recv(update_chan), !.attempt = 1]
  /\ update_chan' = Tail(update_chan)
  /\ UNCHANGED <<current, zone_chan, file_chan, hs, tx, limit, acked, zoneVars, auxVars>>

\* DbZoneProvider::run lines 178-183: the update is committed: the one-shot
\* is signalled, then the notifier is told, which can fail
Committed(p, told) ==
  [p EXCEPT !.pc = "idle", !.upd = NoEntry, !.attempt = 0,
            !.db = Held(ApplyUpdate(p.db.zone, p.upd.update), p.db.ids \cup {p.upd.id}),
            !.applied = @ \o Steps(p.upd),
            !.last = [id |-> p.upd.id, before |-> p.db.zone,
                      after |-> ApplyUpdate(p.db.zone, p.upd.update)],
            !.notified = @ \/ told]

\* DbZoneProvider::run lines 185-193: the attempt failed; after
\* MAX_UPDATE_RETRY attempts the update is skipped
Retried(p) ==
  IF p.attempt >= MaxUpdateRetry
  THEN [p EXCEPT !.pc = "idle", !.upd = NoEntry, !.attempt = 0,
                 !.failed = @ \cup {p.upd.id}]
  ELSE [p EXCEPT !.attempt = @ + 1]

\* DbZoneProvider::run lines 176-195: one attempt of try_update
DbTry ==
  /\ prov.kind = "db"
  /\ prov.pc = "try"
  /\ \E ok \in BOOLEAN, told \in BOOLEAN :
       /\ prov' = IF ok THEN Committed(prov, told) ELSE Retried(prov)
       /\ hs' = IF ok THEN [hs EXCEPT ![prov.upd.response].ack = "ok"]
                ELSE IF Retried(prov).pc = "idle"
                THEN [hs EXCEPT ![prov.upd.response].ack = "dropped"]
                ELSE hs
  /\ UNCHANGED <<current, zone_chan, update_chan, file_chan, tx, limit, acked, zoneVars, auxVars>>

\* signed UPDATEs of the zone com: one adds a.com A 1; one deletes all
\* records at a.com, then adds a.com A 2
ProviderRequests ==
  { Signed(UpdateMsg(ZoneSection, << >>, << AddA >>)),
    Signed(UpdateMsg(ZoneSection, << >>,
             << Empty(SubName, "ALL", "ALL", 0),
                WireRecord(SubName, "A", "IN", SeedTtl, TypeData("A", 2)) >>)) }

NextProvider ==
  \/ InstallInitial
  \/ BootFails
  \/ BindUdp
  \/ BindTcp
  \/ \E h \in Handlers, req \in ProviderRequests : boot \in Listening /\ UdpReceive(h, req)
  \/ \E h \in Handlers : Enqueue(h)
  \/ \E h \in Handlers : EnqueueFails(h)
  \/ \E h \in Handlers : FinishUpdate(h)
  \/ boot \in Listening /\ HotSwap
  \/ StaticRun
  \/ DynFileCreate
  \/ prov.alive /\ FileRead
  \/ prov.alive /\ ProviderFile
  \/ DynFileUpdate
  \/ DynFileSend
  \/ BottomRun
  \/ MergeTop
  \/ MergeBottom
  \/ MergeSend
  \/ MergeUpdate
  \/ MergeForward
  \/ DbInitial
  \/ DbSend
  \/ DbReload
  \/ DbUpdate
  \/ DbTry

SpecProvider == InitProvider /\ [][NextProvider]_vars

\* handler h holds an UPDATE that passed validation
Updating(h) == hs[h].kind # "free" /\ hs[h].update # NoUpdate

\* handler h has sent its response
Answered(h) == hs[h].kind # "free" /\ hs[h].pc = "done"

\* the response code of the response handler h sent
Rcode(h) == hs[h].resp.packet[1].rcode

\* C11: a provider signals the one-shot of an update only after it has sent,
\* on its channel of zones, a zone that reflects the update
C11_AckAfterSnapshot ==
  \A h \in Handlers :
    (Updating(h) /\ hs[h].ack = "ok") => hs[h].start \in prov.reflected

\* C12: an update the provider failed to persist (a failed write of the zone
\* file, three failed attempts on the database) is never acknowledged, and
\* its response has rcode ServerFailure
C12_PersistFailureServerFailure ==
  \A h \in Handlers :
    (Updating(h) /\ hs[h].start \in prov.failed) =>
       /\ hs[h].ack # "ok"
       /\ Answered(h) => Rcode(h) = "ServerFailure"

C12_Witness ==
  \E h \in Handlers :
    /\ Updating(h) /\ Answered(h)
    /\ hs[h].start \in prov.failed
    /\ prov.kind = "db"
    /\ Rcode(h) = "ServerFailure"

\* C13: the response to a validated UPDATE has rcode ServerFailure exactly
\* when the send on the update channel failed or the one-shot was dropped
\* unsignalled; with the one-shot signalled the response keeps its rcode
C13_ServerFailureIffNoAck ==
  \A h \in Handlers :
    (Updating(h) /\ Answered(h)) =>
       /\ Rcode(h) = "ServerFailure" <=> (~hs[h].sent \/ hs[h].ack = "dropped")
       /\ hs[h].ack = "ok" => Rcode(h) = "NoError"

C13_Witness ==
  /\ \E h \in Handlers :
       Updating(h) /\ Answered(h) /\ hs[h].ack = "dropped" /\ Rcode(h) = "ServerFailure"
  /\ \E h \in Handlers :
       Updating(h) /\ Answered(h) /\ hs[h].ack = "ok" /\ Rcode(h) = "NoError"

\* the position of update id in the order of the sends on the update channel
LogPos(id) == CHOOSE i \in DOMAIN log : log[i].id = id

\* the first k of the actions applied to recs one after the other
RECURSIVE StepThrough(_, _, _, _)
StepThrough(name, recs, actions, k) ==
  IF k = 0 THEN recs
  ELSE ApplyAction(name, StepThrough(name, recs, actions, k - 1), actions[k])

\* the records of the zone an update names
LevelRecords(root, name) ==
  IF name = EmptyName THEN root.records
  ELSE IF Fold(name) \in DOMAIN root.zones THEN root.zones[Fold(name)].records
  ELSE DefaultLevel.records

\* C14: a provider applies updates in the order the server placed them on
\* the update channel, all actions of one before any action of the next, and
\* the actions of one update in the order of the update section
C14_UpdatesAppliedInOrder ==
  /\ \A i, j \in DOMAIN prov.applied :
       i < j =>
         /\ prov.applied[i][1] \in {log[n].id : n \in DOMAIN log}
         /\ prov.applied[j][1] \in {log[n].id : n \in DOMAIN log}
         /\ \/ LogPos(prov.applied[i][1]) < LogPos(prov.applied[j][1])
            \/ /\ prov.applied[i][1] = prov.applied[j][1]
               /\ prov.applied[i][2] < prov.applied[j][2]
  /\ prov.last.id # 0 =>
       LET sent == log[LogPos(prov.last.id)].update
       IN LevelRecords(prov.last.after, sent.zone_name) =
            StepThrough(sent.zone_name, LevelRecords(prov.last.before, sent.zone_name),
                        sent.actions, Len(sent.actions))

C14_Witness ==
  /\ Len(log) = 2
  /\ log[1].id > log[2].id
  /\ Len(log[1].update.actions) = 2
  /\ Len(prov.applied) = 3
  /\ prov.applied[3][1] = log[2].id

\* C15: the server binds no socket and starts no task for a request before
\* the first zone of the provider is installed as the current zone, and it
\* never listens when the provider ends without a zone sent
C15_NoListenerBeforeFirstZone ==
  /\ boot \in Listening => current.ver >= 1
  /\ \A h \in Handlers : hs[h].kind # "free" => (boot \in Listening /\ hs[h].snap.ver >= 1)
  /\ (~prov.alive /\ prov.emitted = 0) => boot \in {"waiting", "stopped"}

C15_Witness ==
  /\ boot = "tcp"
  /\ current.ver >= 1
  /\ \E h \in Handlers : Answered(h) /\ hs[h].snap.ver >= 1

C15_WitnessClosed == boot = "stopped" /\ ~prov.alive /\ prov.emitted = 0

\* ------------------------------------------------------------------------
\* Part V: further properties of the UPDATE pipeline, of names, of the wire
\* format, of TSIG and of queries
\* ------------------------------------------------------------------------
\* the action the update record u of an UPDATE stands for (RFC 2136 3.4.2)
ActionFor(zone_class, u) ==
  CASE u.class = zone_class -> [kind |-> "AddRecord", record |-> u]
    [] u.class # zone_class /\ u.class = "ALL" /\ u.type = "ALL" ->
         [kind |-> "DeleteRecords", name |-> u.name, type |-> "None"]
    [] u.class # zone_class /\ u.class = "ALL" /\ u.type # "ALL" ->
         [kind |-> "DeleteRecords", name |-> u.name, type |-> u.type]
    [] u.class # zone_class /\ u.class = "NONE" ->
         [kind |-> "DeleteRecord", name |-> u.name, data |-> u.data]

\* C21: the ZoneUpdate of an UPDATE that passes prerequisites and prescan
\* names the zone of the zone section and has one action per update record,
\* in message order: AddRecord for the zone's class, DeleteRecords(name, None)
\* for ANY/ANY, DeleteRecords(name, Some(T)) for ANY/T, DeleteRecord(name,
\* data) for NONE
C21_UpdateTranslation ==
  (Evaluated /\ result.err = "none") =>
     /\ result.update.zone_name = SectionName(arg)
     /\ Len(result.update.actions) = Len(arg.updates)
     /\ \A i \in 1..Len(arg.updates) :
          result.update.actions[i] = ActionFor("IN", arg.updates[i])

C21_Witness ==
  /\ Evaluated
  /\ result.err = "none"
  /\ Len(result.update.actions) = 4
  /\ result.update.actions[1].kind = "DeleteRecords"
  /\ result.update.actions[2].kind = "AddRecord"
  /\ result.update.actions[3].kind = "DeleteRecord"
  /\ result.update.actions[4] = [kind |-> "DeleteRecords", name |-> ApexName, type |-> "None"]

\* the record an AddRecord of rec stores
StoredAs(rec) == [rec EXCEPT !.ttl = IF rec.ttl >= 60 THEN rec.ttl ELSE 60]

\* the positions of recs an AddRecord of rec can replace
Replaceable(recs, rec) ==
  {k \in 1..Len(recs) :
     /\ NameEq(recs[k].name, rec.name)
     /\ recs[k].type = rec.type
     /\ (rec.type \in {"CNAME", "SOA"} \/ recs[k].data = rec.data)}

\* s with the element at position i left out
Without(s, i) == [k \in 1..(Len(s) - 1) |-> IF k < i THEN s[k] ELSE s[k + 1]]

RECURSIVE IsSubSeq(_, _)
\* s is t with some elements left out
IsSubSeq(s, t) ==
  IF s = << >> THEN TRUE
  ELSE IF t = << >> THEN FALSE
  ELSE IF Head(s) = Head(t) THEN IsSubSeq(Tail(s), Tail(t))
  ELSE IsSubSeq(s, Tail(t))

\* the AddRecord applied in this step was not rejected
AddAccepted ==
  /\ last'.kind = "AddRecord"
  /\ ~CnameRejected(records, StoredAs(last'.action.record))
  /\ ~SoaRejected(records, StoredAs(last'.action.record))

\* an accepted AddRecord replaces the first replaceable record at its index,
\* or appends; a delete leaves a subsequence
AddFrame ==
  /\ (AddAccepted /\ Replaceable(records, last'.action.record) # {}) =>
        /\ Len(records') = Len(records)
        /\ \E i \in Replaceable(records, last'.action.record) :
             /\ records'[i] = StoredAs(last'.action.record)
             /\ Without(records', i) = Without(records, i)
  /\ (AddAccepted /\ Replaceable(records, last'.action.record) = {}) =>
        records' = Append(records, StoredAs(last'.action.record))
  /\ last'.kind \in {"DeleteRecord", "DeleteRecords"} => IsSubSeq(records', records)

\* C22: an AddRecord that is not rejected stores the record with TTL
\* max(ttl, 60), in place of a stored record of the same name and type when
\* the type is CNAME or SOA or the data are equal, else at the end; all other
\* records keep their places, and deletes keep the order of the survivors
C22_AddReplacesInPlaceOrAppends == [][AddFrame]_vars

\* an AddRecord replaced a record that is not the last one, raising the TTL
C22_Witness ==
  /\ last.kind = "AddRecord"
  /\ last.changed
  /\ \E i \in 1..(Len(records) - 1) :
       /\ records[i] = StoredAs(last.action.record)
       /\ records[i].ttl = 60

\* ------------------------------------------------------------------------
\* Name::contains (adns-proto/src/name.rs)
\* ------------------------------------------------------------------------
\* labels of the longest name matched
MaxLabels == 3

\* the labels names are built from: plain ones in both cases, the wildcards
Labels == {"a", "A", "com", "*", "**", "*+"}

NameInputs == [pattern : SeqsUpTo(Labels, MaxLabels), name : SeqsUpTo(Labels, MaxLabels)]

InitName == Chosen /\ arg \in NameInputs

Match ==
  /\ result = << >>
  /\ result' = [done |-> TRUE, contains |-> contains(arg.pattern, arg.name)]
  /\ arg' = arg
  /\ Still

NextName == Match

SpecName == InitName /\ [][NextName]_vars

\* label p of a pattern matches label n
LabelMatches(p, n) == p = "*" \/ FoldLabel(p) = FoldLabel(n)

\* the labels of N after its first `extra` ones match the labels rest
TrailingMatch(rest, N, extra) ==
  /\ Len(N) = Len(rest) + extra
  /\ \A i \in 1..Len(rest) : LabelMatches(rest[i], N[extra + i])

\* the three ways a pattern P contains a name N
Contained(P, N) ==
  \/ /\ Len(P) > 0 /\ P[1] = "**"
     /\ \E extra \in 0..Len(N) : TrailingMatch(Tail(P), N, extra)
  \/ /\ Len(P) > 0 /\ P[1] = "*+"
     /\ \E extra \in 1..Len(N) : TrailingMatch(Tail(P), N, extra)
  \/ TrailingMatch(P, N, 0)

MaxNameIndirection == 32

\* u8::to_ascii_lowercase
LowerByte(b) == IF b >= 65 /\ b <= 90 THEN b + 32 ELSE b

\* the key of known_labels: MaybeConcat hashes and compares ignoring case
FoldBytes(name) == [i \in DOMAIN name |-> [j \in DOMAIN name[i] |-> LowerByte(name[i][j])]]

\* u16::to_be_bytes
BeBytes(v) == << (v \div 256) % 256, v % 256 >>

\* ptr | 0b1100000000000000 on a u16
Pointer(ptr) == 49152 + (ptr % 16384)

\* SerializeContext::default() after `pad` bytes were written
Context(pad) == [packet |-> [i \in 1..pad |-> 0], known |-> << >>]

\* known_labels.get: the pointer stored for a key, -1 for None
Known(ctx, key) ==
  IF \E i \in DOMAIN ctx.known : ctx.known[i].key = key
  THEN ctx.known[CHOOSE i \in DOMAIN ctx.known : ctx.known[i].key = key].ptr
  ELSE -1

RECURSIVE WriteFrom(_, _, _)
\* the loop of write_name from segment i on
WriteFrom(ctx, name, i) ==
  IF i > Len(name) THEN [ctx EXCEPT !.packet = Append(@, 0)]
  ELSE IF Known(ctx, FoldBytes(SubSeq(name, i, Len(name)))) # -1
  THEN [ctx EXCEPT !.packet =
          @ \o BeBytes(Pointer(Known(ctx, FoldBytes(SubSeq(name, i, Len(name))))))]
  ELSE WriteFrom(
         [packet |-> ctx.packet \o << Len(name[i]) >> \o name[i],
          known |-> Append(ctx.known,
                      [key |-> FoldBytes(SubSeq(name, i, Len(name))),
                       ptr |-> Len(ctx.packet) % 65536])],
         name, i + 1)

\* SerializeContext::write_name
write_name(ctx, name) == WriteFrom(ctx, name, 1)

\* the length of a name in dotted form
RECURSIVE DottedLength(_)
DottedLength(name) ==
  IF name = << >> THEN 0
  ELSE Len(Head(name)) + (IF Len(name) > 1 THEN 1 ELSE 0) + DottedLength(Tail(name))

\* the state of read_name's loop; status "loop" while it runs, "ok" and "err"
\* once it has returned, "panic" once it has unwound
ReadState(index, max_length) ==
  [index |-> index, out |-> << >>, start_index |-> index, continue_index |-> -1,
   indirection_count |-> 0, max_length |-> max_length, status |-> "loop", err |-> "none"]

\* read_name returns Err(e)
Fail(st, e) == [st EXCEPT !.status = "err", !.err = e]

\* read_name lines 200-203: the iteration is counted
Uncapped(st) == [st EXCEPT !.indirection_count = @ + 1]

Counted(st) ==
  IF st.indirection_count + 1 > MaxNameIndirection THEN Fail(st, "CorruptName")
  ELSE [st EXCEPT !.indirection_count = @ + 1]

\* the byte the iteration starts with
StartByte(packet, st) == packet[st.index + 1]

\* read_name line 180: the offset a pointer names
NewIndex(packet, st) == (packet[st.index + 1] * 256 + packet[st.index + 2]) % 16384

\* read_name lines 191-192: the bytes of a raw segment
Segment(packet, st) == SubSeq(packet, st.index + 2, st.index + 1 + packet[st.index + 1])

\* std::str::from_utf8 on bytes that are ASCII or 0xFF
Utf8Valid(bytes) == \A i \in DOMAIN bytes : bytes[i] < 128

\* Name::push_segment on a segment of 1 to 63 bytes returns Ok
Pushable(out, segment) == DottedLength(Append(out, segment)) <= 255

\* read_name lines 176-203: one iteration of the loop
ReadIteration(packet, st) ==
  IF st.index + 1 > st.max_length THEN Fail(st, "UnexpectedEOF")
  ELSE IF StartByte(packet, st) \div 64 = 3
  THEN IF st.index + 2 > st.max_length THEN Fail(st, "UnexpectedEOF")
       ELSE IF NewIndex(packet, st) >= st.start_index \/ NewIndex(packet, st) > st.max_length
       THEN Fail(st, "CorruptName")
       ELSE Counted([st EXCEPT !.index = NewIndex(packet, st),
                               !.continue_index = IF @ = -1 THEN st.index + 2 ELSE @])
  ELSE IF StartByte(packet, st) = 0
  THEN [st EXCEPT !.status = "ok",
                  !.index = IF st.continue_index # -1 THEN st.continue_index ELSE st.index + 1]
  ELSE IF StartByte(packet, st) \div 64 = 0
  THEN IF st.index + 1 + StartByte(packet, st) > st.max_length THEN Fail(st, "UnexpectedEOF")
       ELSE IF ~Utf8Valid(Segment(packet, st)) THEN Fail(st, "Utf8Error")
       ELSE IF ~Pushable(st.out, Segment(packet, st)) THEN [st EXCEPT !.status = "panic"]
       ELSE Counted([st EXCEPT !.index = @ + 1 + StartByte(packet, st),
                               !.out = Append(@, Segment(packet, st))])
  ELSE Fail(st, "CorruptName")

ReadError(e) == [ok |-> FALSE, err |-> e, name |-> << >>, index |-> 0]

\* what read_name hands back once its loop has ended
Returned(st) ==
  CASE st.status = "ok" -> [ok |-> TRUE, err |-> "none", name |-> st.out, index |-> st.index]
    [] st.status = "panic" -> ReadError("panic")
    [] OTHER -> ReadError(st.err)

RECURSIVE ReadLoop(_, _)
\* the loop of read_name
ReadLoop(packet, st) ==
  IF st.status # "loop" THEN Returned(st) ELSE ReadLoop(packet, ReadIteration(packet, st))

\* DeserializeContext::read_name on a context at `index`
read_name(packet, index) == ReadLoop(packet, ReadState(index, Len(packet)))

\* labels: a, A, b, com, COM
LabelA == << 97 >>
LabelUpperA == << 65 >>
LabelB == << 98 >>
LabelCom == << 99, 111, 109 >>
LabelUpperCom == << 67, 79, 77 >>

\* the name of n labels a
Repeated(n) == [i \in 1..n |-> LabelA]

\* names written before the name under test
PriorNames ==
  { << LabelCom >>, << LabelA, LabelCom >>, << LabelUpperA, LabelUpperCom >>,
    << LabelB, LabelA, LabelCom >> }

\* names under test: the root, names sharing suffixes with the prior ones in
\* either case, and names of many short labels
WireNames ==
  { << >>, << LabelCom >>, << LabelA, LabelCom >>, << LabelA, LabelUpperCom >>,
    << LabelB, LabelCom >>, << LabelB, LabelB, LabelA, LabelCom >>,
    << LabelA, LabelA >> }
    \cup {Repeated(n) : n \in {31, 32, 33}}

\* bytes written before the first name: none, a header, 16 KiB of message
Offsets == {0, 12, 16384}

WireInputs == [name : WireNames, before : SeqsUpTo(PriorNames, 2), pad : Offsets]

RECURSIVE WriteAll(_, _)
WriteAll(ctx, names) ==
  IF names = << >> THEN ctx ELSE WriteAll(write_name(ctx, Head(names)), Tail(names))

InitWire == Chosen /\ arg \in WireInputs

\* the name is written after the earlier ones and read back where it starts
RoundTripResult(before, after) ==
  [read |-> read_name(after.packet, Len(before.packet)),
   start |-> Len(before.packet), end |-> Len(after.packet)]

RoundTrip ==
  /\ result = << >>
  /\ result' = RoundTripResult(WriteAll(Context(arg.pad), arg.before),
                               write_name(WriteAll(Context(arg.pad), arg.before), arg.name))
  /\ arg' = arg
  /\ Still

NextWire == RoundTrip

SpecWire == InitWire /\ [][NextWire]_vars

ValidWireName(name) ==
  /\ \A i \in DOMAIN name : Len(name[i]) >= 1 /\ Len(name[i]) <= 63
  /\ DottedLength(name) <= 255

\* the name read back equals the name written, the cursor is past its bytes
ReadBack ==
  /\ result.read.ok
  /\ FoldBytes(result.read.name) = FoldBytes(arg.name)
  /\ result.read.index = result.end

\* C24: a valid name written by write_name in any compression state is read
\* back by read_name, at the offset it was written at, as an equal name,
\* with the cursor left just past the bytes written
C24_NameRoundTrip ==
  (result # << >> /\ ValidWireName(arg.name)) => ReadBack

\* the round trip of names of at most MAX_NAME_INDIRECTION labels written
\* below offset 2^14
NameRoundTripWithinLimits ==
  (result # << >> /\ Len(arg.name) <= MaxNameIndirection /\ result.end <= 16384) => ReadBack

\* ------------------------------------------------------------------------
\* The message header (adns-proto/src/header.rs)
\* ------------------------------------------------------------------------
Plain(tag) == [tag |-> tag]
Other(v) == [tag |-> "Other", val |-> v]

\* impl From<u8> for Opcode, on a value of four bits
OpcodeFrom(v) ==
  CASE v = 0 -> Plain("Query") [] v = 1 -> Plain("InverseQuery")
    [] v = 2 -> Plain("Status") [] v = 5 -> Plain("Update") [] OTHER -> Other(v)

\* impl From<Opcode> for u8
OpcodeByte(o) ==
  CASE o.tag = "Query" -> 0 [] o.tag = "InverseQuery" -> 1 [] o.tag = "Status" -> 2
    [] o.tag = "Update" -> 5 [] o.tag = "Other" -> o.val

ResponseCodes ==
  << "NoError", "FormatError", "ServerFailure", "NameError", "NotImplemented", "Refused",
     "YxDomain", "YxRRSet", "NxRRSet", "NotAuth", "NotZone" >>

\* impl From<u8> for ResponseCode, on a value of four bits
ResponseCodeFrom(v) == IF v + 1 <= Len(ResponseCodes) THEN Plain(ResponseCodes[v + 1]) ELSE Other(v)

\* impl From<ResponseCode> for u8
ResponseCodeByte(r) ==
  IF r.tag = "Other" THEN r.val
  ELSE (CHOOSE i \in 1..Len(ResponseCodes) : ResponseCodes[i] = r.tag) - 1

Bit(b) == IF b THEN 1 ELSE 0

\* u16::from_be_bytes of data[i..i + 2], i counted from 0
BeU16(data, i) == data[i + 1] * 256 + data[i + 2]

\* the flags word of to_bytes with the reserved bits written as zero
FlagsNoReserved(h) ==
  Bit(h.query_response = "Response") * 32768
    + (OpcodeByte(h.opcode) % 16) * 2048
    + Bit(h.is_authoritative) * 1024 + Bit(h.is_truncated) * 512
    + Bit(h.recursion_desired) * 256 + Bit(h.recursion_available) * 128
    + (ResponseCodeByte(h.response_code) % 16)

\* the flags word of to_bytes
Flags(h) ==
  Bit(h.query_response = "Response") * 32768
    + (OpcodeByte(h.opcode) % 16) * 2048
    + Bit(h.is_authoritative) * 1024 + Bit(h.is_truncated) * 512
    + Bit(h.recursion_desired) * 256 + Bit(h.recursion_available) * 128
    + (h.reserved % 8) * 16
    + (ResponseCodeByte(h.response_code) % 16)

\* Header::to_bytes
to_bytes(h) ==
  BeBytes(h.id) \o BeBytes(Flags(h)) \o BeBytes(h.question_count) \o BeBytes(h.answer_count)
    \o BeBytes(h.nameserver_count) \o BeBytes(h.additional_record_count)

\* Header::parse
parse(data) ==
  [id |-> BeU16(data, 0),
   query_response |-> IF (BeU16(data, 2) \div 32768) % 2 = 0 THEN "Query" ELSE "Response",
   opcode |-> OpcodeFrom((BeU16(data, 2) \div 2048) % 16),
   is_authoritative |-> (BeU16(data, 2) \div 1024) % 2 # 0,
   is_truncated |-> (BeU16(data, 2) \div 512) % 2 # 0,
   recursion_desired |-> (BeU16(data, 2) \div 256) % 2 # 0,
   recursion_available |-> (BeU16(data, 2) \div 128) % 2 # 0,
   reserved |-> (BeU16(data, 2) \div 16) % 8,
   response_code |-> ResponseCodeFrom(BeU16(data, 2) % 16),
   question_count |-> BeU16(data, 4),
   answer_count |-> BeU16(data, 6),
   nameserver_count |-> BeU16(data, 8),
   additional_record_count |-> BeU16(data, 10)]

\* Header::validate
HeaderValid(h) == h.opcode.tag # "Other" /\ h.response_code.tag # "Other"

\* headers: every flag combination, documented and other opcodes and
\* response codes, reserved values inside and outside three bits
HeaderInputs ==
  [id : {0, 258, 65535},
   query_response : {"Query", "Response"},
   opcode : {Plain("Query"), Plain("InverseQuery"), Plain("Status"), Plain("Update"), Other(3)},
   is_authoritative : BOOLEAN, is_truncated : BOOLEAN,
   recursion_desired : BOOLEAN, recursion_available : BOOLEAN,
   reserved : {0, 5, 7, 8, 255},
   response_code : {Plain("NoError"), Plain("Refused"), Plain("NotZone"), Other(11)},
   question_count : {1},
   answer_count : {0, 513},
   nameserver_count : {0},
   additional_record_count : {65535}]

\* byte arrays: every flags word under two ids and counts
ByteInputs ==
  {<< i, 255 - i, f1, f2, 0, 1, c, 0, 0, 0, 1, c >> :
     i \in {0, 18}, f1 \in 0..255, f2 \in {16 * r + x : r \in {0, 5, 7}, x \in 0..15}, c \in {0, 255}}

InitHeader ==
  /\ Chosen
  /\ arg \in {[kind |-> "header", header |-> h] : h \in HeaderInputs}
               \cup {[kind |-> "bytes", bytes |-> b] : b \in ByteInputs}

\* a header is written and parsed back
Encode ==
  /\ result = << >>
  /\ arg.kind = "header"
  /\ result' = [bytes |-> to_bytes(arg.header), header |-> parse(to_bytes(arg.header))]
  /\ arg' = arg
  /\ Still

\* a byte array is parsed and written back
Decode ==
  /\ result = << >>
  /\ arg.kind = "bytes"
  /\ result' = [header |-> parse(arg.bytes), bytes |-> to_bytes(parse(arg.bytes))]
  /\ arg' = arg
  /\ Still

NextHeader == Encode \/ Decode

SpecHeader == InitHeader /\ [][NextHeader]_vars

\* the byte arrays that parse to a valid header are written back unchanged
BytesRoundTrip ==
  (result # << >> /\ arg.kind = "bytes" /\ HeaderValid(result.header)) => result.bytes = arg.bytes

\* C25 as stated: every header with a documented opcode and response code
\* is parsed back from its bytes field by field, and every byte array that
\* parses to a valid header is written back unchanged
C25_HeaderRoundTrip ==
  /\ (result # << >> /\ arg.kind = "header" /\ HeaderValid(arg.header)) =>
        result.header = arg.header
  /\ BytesRoundTrip

\* C25 amended: the same for the headers whose reserved field fits the three
\* bits it has on the wire
C25_HeaderRoundTripThreeBitReserved ==
  /\ (result # << >> /\ arg.kind = "header" /\ HeaderValid(arg.header)
        /\ arg.header.reserved <= 7) => result.header = arg.header
  /\ BytesRoundTrip

C25_Witness ==
  /\ result # << >>
  /\ arg.kind = "header"
  /\ arg.header.opcode = Plain("Update")
  /\ arg.header.response_code = Plain("NotZone")
  /\ arg.header.reserved = 5
  /\ arg.header.is_authoritative /\ ~arg.header.is_truncated
  /\ result.header = arg.header
  /\ result.bytes[3] = 172 /\ result.bytes[4] = 90

\* ------------------------------------------------------------------------
\* TSIG: signing and validating (adns-proto/src/tsig.rs)
\* ------------------------------------------------------------------------
\* tsig::validate with the mode and the request MAC of the call
validate_mode(keys, allow_md5, data, name, tsig, mode, request_mac) ==
  CompareMac(calculate_mode(keys, allow_md5, data, name, tsig, mode, request_mac), tsig.mac)

\* what happens to a signed message before it is validated: nothing; a bit
\* of a section, of the message id or of the MAC changes; time_signed moves
\* beyond the fudge or to its edge
Tampers == {"none", "body", "id", "mac", "late", "early", "edge"}

TsigInputs ==
  [id : {7, 9}, aa : BOOLEAN, name : {KeyName, "k2"}, algorithm : Algorithms \cup {Md5},
   allow_md5 : BOOLEAN, mode : {"Normal", "TimersOnly"},
   request_mac : {<< >>, << <<"m", 1>> >>}, tamper : Tampers]

\* the message an input signs
SignedMessage(a) == [Response(a.id) EXCEPT !.aa = a.aa]

\* the message as the validator receives it
Received(a, packet) ==
  CASE a.tamper = "body" -> [packet EXCEPT !.aa = ~a.aa]
    [] a.tamper = "id" -> [packet EXCEPT !.id = (a.id + 1) % 65536]
    [] OTHER -> packet

\* the TSIG data as the validator receives them
ReceivedTsig(a, tsig) ==
  CASE a.tamper = "mac" -> [tsig EXCEPT !.mac = << "flipped", tsig.mac >>]
    [] a.tamper = "late" -> [tsig EXCEPT !.time_signed = Now + Fudge + 1]
    [] a.tamper = "early" -> [tsig EXCEPT !.time_signed = Now - Fudge - 1]
    [] a.tamper = "edge" -> [tsig EXCEPT !.time_signed = Now + Fudge]
    [] OTHER -> tsig

InitTsig == Chosen /\ arg \in TsigInputs

\* the verdict of validate on what became of the message serialize_packet signed
Verdict(a, signed) ==
  [signed |-> signed,
   verdict |-> validate_mode(InitialZone.tsig_keys, a.allow_md5,
                 Body(Received(a, signed.packet)), a.name,
                 ReceivedTsig(a, signed.tsig), a.mode, a.request_mac)]

SignAndValidate ==
  /\ result = << >>
  /\ result' = Verdict(arg, serialize_packet(InitialZone.tsig_keys, SignedMessage(arg), arg.name,
                              arg.algorithm, arg.allow_md5, arg.mode, arg.request_mac))
  /\ arg' = arg
  /\ Still

NextTsig == SignAndValidate

SpecTsig == InitTsig /\ [][NextTsig]_vars

\* the key is in the key table and the algorithm is supported
Signable ==
  /\ result # << >>
  /\ arg.name \in DOMAIN InitialZone.tsig_keys
  /\ (arg.algorithm \in Algorithms \/ (arg.algorithm = Md5 /\ arg.allow_md5))

\* the TSIG error code of the verdict
VerdictCode ==
  IF result.verdict.err = "none" THEN "NoError"
  ELSE to_record(result.verdict.err, [name |-> arg.name] @@ result.signed.tsig).data.error

\* the verdicts the cases other than a changed message id have
TsigVerdicts ==
  /\ arg.tamper = "none" =>
       (result.verdict.err = "none" /\ result.verdict.mac = result.signed.mac)
  /\ arg.tamper \in {"body", "mac", "edge"} => VerdictCode = "BadSig"
  /\ arg.tamper \in {"late", "early"} => VerdictCode = "BadTime"

DeepName == <<"b", "a", "com">>

\* the record lists a zone level of an input holds
StarOnly == << Record(<<"*", "com">>, SeedTtl, TypeData("A", 1)) >>
StarStarOnly == << Record(<<"**", "com">>, SeedTtl, TypeData("A", 1)) >>
AliasToAddress ==
  << Record(SubName, SeedTtl, TypeData("CNAME", 8)),
     Record(HopName, SeedTtl, TypeData("A", 3)) >>
AliasToAlias ==
  << Record(SubName, SeedTtl, TypeData("CNAME", 8)),
     Record(HopName, SeedTtl, TypeData("CNAME", 1)) >>
AddressAndAlias ==
  << Record(SubName, SeedTtl, TypeData("A", 1)),
     Record(SubName, SeedTtl, TypeData("CNAME", 8)),
     Record(HopName, SeedTtl, TypeData("A", 3)) >>
MailAndAddress ==
  << Record(ApexName, SeedTtl, TypeData("MX", 2)),
     Record(SubName, SeedTtl, TypeData("A", 1)) >>
ServiceAndAddresses ==
  << Record(SubName, SeedTtl, TypeData("SRV", 8)),
     Record(HopName, SeedTtl, TypeData("A", 3)),
     Record(HopName, SeedTtl, TypeData("A", 4)) >>
TextOnly == << Record(SubName, SeedTtl, TypeData("TXT", 0)) >>
AnyName == << Record(ZonePrefixRoot, SeedTtl, TypeData("A", 1)) >>

QueryRecords ==
  { << >>, StarOnly, StarStarOnly, AliasToAddress, AliasToAlias, AddressAndAlias,
    MailAndAddress, ServiceAndAddresses, TextOnly, AnyName }

QueryNames == {EmptyName, ApexName, SubName, HopName, DeepName, NetName, VersionBind}
QueryTypes == {"A", "CNAME", "MX", "SOA", "NS", "TXT"}
OneQuestion == { Question(n, t, "IN") : n \in QueryNames, t \in QueryTypes }
SecondQuestion ==
  { Question(ApexName, "SOA", "IN"), Question(SubName, "A", "IN"),
    Question(NetName, "A", "IN") }

QueryQuestions ==
  { << >> } \cup { << q >> : q \in OneQuestion }
    \cup { << q, r >> : q \in OneQuestion, r \in SecondQuestion }

\* the zone tree of an input: the records in the root zone (no subzone), or
\* in the subzone com of a root zone without SOA
QueryZone(a) ==
  IF a.at = "root"
  THEN [InitialZone EXCEPT !.records = a.recs, !.soa = a.soa,
                           !.authoritative = a.auth, !.zones = << >>]
  ELSE [InitialZone EXCEPT !.zones =
          [k \in {ApexName} |-> Level(a.recs, a.soa, << 1 >>, a.auth)]]

QueryInputs ==
  [recs : QueryRecords, at : {"root", "sub"}, soa : {0, 1}, auth : BOOLEAN,
   questions : QueryQuestions]

InitQuery == Chosen /\ arg \in QueryInputs

\* respond_query on the chosen request
Respond ==
  /\ result = << >>
  /\ result' = RespondQuery(QueryZone(arg), arg.questions)
  /\ arg' = arg
  /\ Still

NextQuery == Respond

SpecQuery == InitQuery /\ [][NextQuery]_vars

Responded == result # << >>

\* the levels of the tree consulted for a name: the root zone under the empty
\* apex and every subzone whose apex the name ends with
LevelsFor(root, name) ==
  { [apex |-> EmptyName, level |-> root] }
    \cup { [apex |-> k, level |-> root.zones[k]] :
            k \in { z \in DOMAIN root.zones : ends_with(name, z) } }

\* the question is matched: version.bind TXT, the SOA / NS rule of an apex,
\* or the owner pattern of a record, whatever its type
Matched(root, q) ==
  \/ NameEq(q.name, VersionBind) /\ q.type = "TXT"
  \/ \E l \in LevelsFor(root, q.name) :
       \/ NameEq(q.name, l.apex) /\ q.type \in {"SOA", "NS"}
       \/ \E i \in 1..Len(l.level.records) : contains(l.level.records[i].name, q.name)

AnyMatched(root, questions) ==
  \E i \in 1..Len(questions) : Matched(root, questions[i])

\* C27: the rcode of a query response is NameError exactly when no question
\* was matched (by the owner pattern of a record of any type in a zone the
\* name lies in, by the SOA / NS rule of a zone apex, or by version.bind
\* TXT), else NoError; under the pattern *.com the name b.a.com is a
\* NameError, under **.com it is answered
C27_NameErrorIffNothingSeen ==
  Responded =>
    /\ result.rcode = (IF AnyMatched(QueryZone(arg), arg.questions)
                        THEN "NoError" ELSE "NameError")
    /\ (arg.questions = << Question(DeepName, "A", "IN") >> /\ arg.recs = StarOnly)
         => result.rcode = "NameError" /\ result.answers = << >>
    /\ (arg.questions = << Question(DeepName, "A", "IN") >> /\ arg.recs = StarStarOnly)
         => /\ result.rcode = "NoError"
            /\ result.answers = << Record(DeepName, SeedTtl, TypeData("A", 1)) >>

\* the pattern *.com is stored and b.a.com is asked: NameError
C27_Witness ==
  /\ Responded
  /\ arg.recs = StarOnly
  /\ arg.questions = << Question(DeepName, "A", "IN") >>
  /\ result.rcode = "NameError"

\* the records a level-by-level search of the tree finds for a name and a
\* type (the SOA / NS rule of an apex aside), under the queried owner name
RECURSIVE Found(_, _, _)
Found(levels, name, type) ==
  IF levels = << >> THEN << >>
  ELSE LET recs == SelectSeq(Head(levels).records,
                     LAMBDA r : contains(r.name, name) /\ r.type = type)
       IN [i \in 1..Len(recs) |-> [recs[i] EXCEPT !.name = name]]
            \o Found(Tail(levels), name, type)

\* the levels searched for a name, the root zone first
SearchOrder(root, name) ==
  << root >> \o [i \in 1..Len(SelectSeq(SetToSeq(DOMAIN root.zones),
                                         LAMBDA z : ends_with(name, z))) |->
                  root.zones[SelectSeq(SetToSeq(DOMAIN root.zones),
                                       LAMBDA z : ends_with(name, z))[i]]]

\* what one question of type A, CNAME, MX or TXT adds to the answer section
Expected(root, q) ==
  LET levels == SearchOrder(root, q.name)
  IN IF q.type = "A" /\ Found(levels, q.name, "A") = << >>
     THEN Found(levels, q.name, "CNAME")
     ELSE Found(levels, q.name, q.type)

\* the A records of the targets of the CNAME, MX and SRV answers, in order
RECURSIVE TargetAddresses(_, _)
TargetAddresses(root, answers) ==
  IF answers = << >> THEN << >>
  ELSE (IF Head(answers).type \in {"CNAME", "MX", "SRV"}
        THEN Found(SearchOrder(root, DataName(Head(answers).data.val)),
                   DataName(Head(answers).data.val), "A")
        ELSE << >>) \o TargetAddresses(root, Tail(answers))

AddressesOf(section) == SelectSeq(section, LAMBDA r : r.type = "A")

\* C28: a question of type A without A records is answered with the CNAME
\* records of the same name; the A records of every CNAME target, MX
\* exchange and SRV target of the answer section are in the additional
\* section, in order; no answer record comes from another name than a
\* queried one, or from another type than the queried one or, for an A
\* question, CNAME
C28_CnameRetryAndAdditional ==
  Responded =>
    /\ (Len(arg.questions) = 1 /\ arg.questions[1].type \in {"A", "CNAME", "MX", "TXT"}
           /\ ~NameEq(arg.questions[1].name, VersionBind))
         => result.answers = Expected(QueryZone(arg), arg.questions[1])
    /\ AddressesOf(result.additional) = TargetAddresses(QueryZone(arg), result.answers)
    /\ \A i \in 1..Len(result.answers) :
         \E j \in 1..Len(arg.questions) :
           /\ NameEq(result.answers[i].name, arg.questions[j].name)
           /\ \/ result.answers[i].type = arg.questions[j].type
              \/ arg.questions[j].type = "A" /\ result.answers[i].type = "CNAME"
    /\ (arg.recs = AliasToAlias /\ arg.questions = << Question(SubName, "A", "IN") >>)
         => result.answers = << Record(SubName, SeedTtl, TypeData("CNAME", 8)) >>

\* a.com holds only a CNAME to b.com, b.com an address: the A question for
\* a.com is answered with the CNAME, the address is additional
C28_Witness ==
  /\ Responded
  /\ arg.recs = AliasToAddress
  /\ arg.questions = << Question(SubName, "A", "IN") >>
  /\ result.answers = << Record(SubName, SeedTtl, TypeData("CNAME", 8)) >>
  /\ result.additional = << Record(HopName, SeedTtl, TypeData("A", 3)) >>

\* the response is authoritative and empty although a queried name was seen
NoData == Responded /\ result.aa /\ result.answers = << >> /\ result.rcode = "NoError"

\* the apex of the zone of an input that holds the records and the SOA
ZoneApex(a) == IF a.at = "root" THEN EmptyName ELSE ApexName

HasSoa(section) == \E i \in 1..Len(section) : section[i].type = "SOA"

\* C29: an authoritative response with an empty answer section and the state
\* DomainSeen carries, in its authority section, an SOA record of the zone
\* (which has one) that holds the queried name, whether the name is the apex
\* or lies below it
C29_SoaInAuthority ==
  (NoData /\ arg.soa # 0) => HasSoa(result.nameservers)

\* the same, whenever one of the queried names is the apex of the zone
SoaInAuthorityAtApex ==
  (NoData /\ arg.soa # 0
     /\ \E i \in 1..Len(arg.questions) : NameEq(arg.questions[i].name, ZoneApex(arg)))
    => result.nameservers = << Record(ZoneApex(arg), 60, TypeData("SOA", arg.soa)) >>

\* the SOA is absent exactly when no queried name is the apex
SoaMissingBelowApex ==
  (NoData /\ arg.soa # 0 /\ ~HasSoa(result.nameservers))
    => \A i \in 1..Len(arg.questions) : ~NameEq(arg.questions[i].name, ZoneApex(arg))

\* ------------------------------------------------------------------------
\* The merge provider between two children that send zones of their own
\* accord (adns-server/src/zone_provider/merge.rs)
\* ------------------------------------------------------------------------
\* snapshots the two children send in a run
MergeSnapshots == 5

RootRecord(v) == [DefaultZone EXCEPT !.records = << Record(SubName, SeedTtl, TypeData("A", v)) >>]

TopZones == {RootRecord(1), RootRecord(2)}

BottomZones ==
  {InitialZone,
   [InitialZone EXCEPT !.records = << Record(ApexName, SeedTtl, TypeData("A", 3)) >>]}

InitMerge ==
  /\ current = Snapshot(0, DefaultZone)
  /\ zone_chan = << >>
  /\ update_chan = << >>
  /\ file_chan = << >>
  /\ prov = ProviderStart("merge")
  /\ hs = [h \in Handlers |-> FreeHandler]
  /\ tx = 0
  /\ limit = MergeSnapshots
  /\ acked = {}
  /\ Idle
  /\ boot = "waiting"
  /\ log = << >>
  /\ arg = << >>
  /\ result = << >>

\* top.run: the top provider sends a zone on its channel (merge.rs 38, 45)
TopSends ==
  /\ tx < limit
  /\ Len(prov.top_zones) < ChanDepth
  /\ \E z \in TopZones : prov' = [prov EXCEPT !.top_zones = Append(@, Held(z, {}))]
  /\ tx' = tx + 1
  /\ UNCHANGED <<current, zone_chan, update_chan, file_chan, hs, limit, acked, zoneVars, auxVars>>

\* bottom.run: the bottom provider sends a zone on its channel (merge.rs 40, 48)
BottomSends ==
  /\ tx < limit
  /\ Len(prov.bottom_zones) < ChanDepth
  /\ \E z \in BottomZones : prov' = [prov EXCEPT !.bottom_zones = Append(@, Held(z, {}))]
  /\ tx' = tx + 1
  /\ UNCHANGED <<current, zone_chan, update_chan, file_chan, hs, limit, acked, zoneVars, auxVars>>

NextMerge ==
  \/ TopSends
  \/ BottomSends
  \/ MergeTop
  \/ MergeBottom
  \/ MergeSend
  \/ InstallInitial
  \/ boot = "loaded" /\ HotSwap

SpecMerge == InitMerge /\ [][NextMerge]_vars

\* the merge provider takes a snapshot off the channel of a child
TopArrives == Len(prov'.top_zones) < Len(prov.top_zones)
BottomArrives == Len(prov'.bottom_zones) < Len(prov.bottom_zones)

\* the provider's view of its children: the snapshots received last
LatestKept ==
  /\ TopArrives => prov'.top = Head(prov.top_zones) /\ prov'.bottom = prov.bottom
  /\ BottomArrives => prov'.bottom = Head(prov.bottom_zones) /\ prov'.top = prov.top
  /\ ~(TopArrives \/ BottomArrives) =>
        prov'.top = prov.top /\ prov'.bottom = prov.bottom /\ prov'.load = prov.load

\* a snapshot is on its way out: the bottom snapshot received last with the
\* top snapshot received last merged into it
Emitting ==
  /\ prov'.mpc = "send"
  /\ prov'.load.zone = merge_from(prov'.bottom.zone, prov'.top.zone)

\* the snapshot on its way out goes out, once, as it was computed
Emitted ==
  (prov.mpc = "send" /\ prov'.mpc # "send") =>
    /\ zone_chan' = Append(zone_chan, Snapshot(prov.emitted + 1,
                                                merge_from(prov.bottom.zone, prov.top.zone)))
    /\ prov'.emitted = prov.emitted + 1
    /\ prov'.mpc = "idle"

\* a zone leaves the provider only as such a snapshot
OnlyEmitted ==
  Len(zone_chan') > Len(zone_chan) => prov.mpc = "send" /\ prov'.mpc = "idle"

\* C30: every arrival of a snapshot from a child makes the merge provider
\* emit one snapshot, the bottom snapshot received last with the top snapshot
\* received last merged into it; no emitted snapshot is computed from an
\* older snapshot of a child
C30_EmitsOnEveryArrival ==
  [][/\ LatestKept
     /\ (TopArrives \/ BottomArrives) => Emitting
     /\ Emitted
     /\ OnlyEmitted]_vars

\* C30 amended: the same for an arrival at which a snapshot of either child
\* has been received; an arrival before that emits nothing
C30_EmitsOnArrivalOnceBothKnown ==
  [][/\ LatestKept
     /\ (TopArrives \/ BottomArrives) =>
          IF prov'.top.some /\ prov'.bottom.some THEN Emitting
          ELSE prov'.mpc = "idle" /\ zone_chan' = zone_chan /\ prov'.emitted = prov.emitted
     /\ Emitted
     /\ OnlyEmitted]_vars

\* the third snapshot emitted is the second bottom zone with the second top
\* zone merged into it, both children having sent another zone before
C30_Witness ==
  /\ prov.emitted = 3
  /\ prov.mpc = "idle"
  /\ prov.top.zone = RootRecord(2)
  /\ prov.bottom.zone # InitialZone
  /\ zone_chan # << >>
  /\ zone_chan[Len(zone_chan)] = Snapshot(3, merge_from(prov.bottom.zone, RootRecord(2)))
  /\ current.ver = 1
  /\ current.zone = merge_from(InitialZone, RootRecord(1))

\* ------------------------------------------------------------------------
\* Truncation to max_size (adns-proto/src/packet.rs, tsig.rs;
\* adns-server/src/server/mod.rs)
\* ------------------------------------------------------------------------
UdpPayloadSize == 1232

\* Header::LENGTH
HeaderLength == 12

\* n bytes of questions and records
Filler(n) == [i \in 1..n |-> 0]

\* the header of a response of the server, with the TC flag as given
ResponseHeader(tc, additional) ==
  [id |-> 258, query_response |-> "Response", opcode |-> Plain("Query"),
   is_authoritative |-> TRUE, is_truncated |-> tc, recursion_desired |-> FALSE,
   recursion_available |-> FALSE, reserved |-> 0, response_code |-> Plain("NoError"),
   question_count |-> 1, answer_count |-> 1, nameserver_count |-> 0,
   additional_record_count |-> additional]

\* Packet::serialize_open and context.finalize(): header, then the sections
Finalized(header, sections) == to_bytes(header) \o Filler(sections)

\* a call that returned a buffer, a call that panicked
Bytes(b) == [panic |-> FALSE, bytes |-> b]
Panicked == [panic |-> TRUE, bytes |-> << >>]

\* out.truncate(max_size), then the header with TC set copied over the first
\* 12 bytes: a slice of 12 bytes of a shorter buffer panics
Rewritten(header, out, max_size) ==
  IF max_size < HeaderLength THEN Panicked
  ELSE Bytes(to_bytes(header) \o SubSeq(out, HeaderLength + 1, max_size))

\* Packet::serialize that cuts the buffer and leaves the header as it was
PacketSerializeKeepsHeader(header, sections, max_size) ==
  Bytes(SubSeq(Finalized(header, sections), 1, Min(max_size, HeaderLength + sections)))

\* Packet::serialize
PacketSerialize(header, sections, max_size) ==
  IF Len(Finalized(header, sections)) > max_size
  THEN Rewritten([header EXCEPT !.is_truncated = TRUE], Finalized(header, sections), max_size)
  ELSE Bytes(Finalized(header, sections))

\* tsig::serialize_packet lines 182-191: the TSIG record of `tsig` bytes is
\* appended, the count of additional records raised, the header rewritten
SerializePacketBytes(header, sections, tsig, max_size) ==
  IF HeaderLength + sections + tsig > max_size
  THEN Rewritten([header EXCEPT !.is_truncated = TRUE,
                                !.additional_record_count = @ + 1],
                 Finalized(header, sections + tsig), max_size)
  ELSE Bytes(Finalized([header EXCEPT !.additional_record_count = @ + 1], sections + tsig))

\* PacketResponse::serialize on `messages` equal messages: the byte buffers
Buffers(a, max_size) ==
  [i \in 1..a.messages |->
     IF a.tsig = 0 THEN PacketSerialize(ResponseHeader(a.tc, 0), a.body, max_size)
     ELSE SerializePacketBytes(ResponseHeader(a.tc, 0), a.body, a.tsig, max_size)]

\* Server::run lines 149-158: the datagrams sent for a response
Datagrams(buffers) ==
  IF (\E i \in 1..Len(buffers) : buffers[i].panic) \/ Len(buffers) # 1
  THEN << >> ELSE << buffers[1].bytes >>

\* the size limit of a call: max_size itself, or on the UDP path the
\* smaller of 1232 and the response's udp_max_size
LimitOf(a) == IF a.via = "udp" THEN Min(UdpPayloadSize, a.max_size) ELSE a.max_size

TruncateInputs ==
  [body : {0, 1, 20, 1219, 1220, 1221, 1300},
   max_size : {5, 12, 13, 32, 1231, 1232, 1233, 65535},
   tc : BOOLEAN, tsig : {0, 40}, messages : {1, 2}, via : {"direct", "udp"}]

InitTruncate == Chosen /\ arg \in TruncateInputs

SerializeBytes ==
  /\ result = << >>
  /\ result' = [out |-> Buffers(arg, LimitOf(arg)),
                datagrams |-> IF arg.via = "udp" THEN Datagrams(Buffers(arg, LimitOf(arg)))
                              ELSE << >>]
  /\ arg' = arg
  /\ Still

NextTruncate == SerializeBytes

SpecTruncate == InitTruncate /\ [][NextTruncate]_vars

Serialized == result # << >> /\ LimitOf(arg) >= HeaderLength

\* the length of the serialization before any truncation
FullLength(a) == HeaderLength + a.body + a.tsig

TcBit(out) == parse(SubSeq(out, 1, HeaderLength)).is_truncated

WithinUdpPayload ==
  result # << >> =>
    /\ Len(result.datagrams) <= 1
    /\ \A i \in 1..Len(result.datagrams) : Len(result.datagrams[i]) <= UdpPayloadSize

\* C31: for a max_size of at least 12 the serialized message, signed or
\* not, is at most max_size bytes long and has the TC bit set exactly when
\* the full serialization is longer than max_size; a UDP response is one
\* datagram of at most 1232 bytes
C31_TruncatedIffTooLong ==
  /\ Serialized =>
       \A i \in 1..Len(result.out) :
         /\ ~result.out[i].panic
         /\ Len(result.out[i].bytes) <= LimitOf(arg)
         /\ TcBit(result.out[i].bytes) <=> (FullLength(arg) > LimitOf(arg))
  /\ WithinUdpPayload

\* C31 amended: the TC bit is set exactly when the full serialization is
\* longer than max_size or the packet's header had the flag set already
C31_TruncatedIffTooLongOrFlagged ==
  /\ Serialized =>
       \A i \in 1..Len(result.out) :
         /\ ~result.out[i].panic
         /\ Len(result.out[i].bytes) = Min(FullLength(arg), LimitOf(arg))
         /\ TcBit(result.out[i].bytes) <=> (FullLength(arg) > LimitOf(arg) \/ arg.tc)
  /\ WithinUdpPayload

\* a signed response of 1261 bytes went out on UDP as one datagram of 1232
\* bytes with the TC bit set
C31_Witness ==
  /\ Serialized
  /\ arg.via = "udp" /\ arg.tsig = 40 /\ arg.body = 1221 /\ ~arg.tc
  /\ Len(result.datagrams) = 1
  /\ Len(result.datagrams[1]) = UdpPayloadSize
  /\ TcBit(result.datagrams[1])

\* ------------------------------------------------------------------------
\* UPDATEs through the merge provider over a dynfile top and a file bottom,
\* under fair scheduling (adns-server/src/zone_provider/merge.rs,
\* dynfile.rs; adns-server/src/server/respond.rs)
\* ------------------------------------------------------------------------
\* UPDATE requests received in a run, one handler task each
StallUpdates == 6

Tasks == 1..StallUpdates

\* the merge provider holds an update it cannot forward, the channel of
\* updates of the top provider being full, while the top provider holds a
\* zone it cannot send, its channel of zones being full
MutualWait ==
  /\ prov.mpc = "forward" /\ Len(prov.top_updates) = ChanDepth
  /\ prov.pc = "send" /\ Len(prov.top_zones) = ChanDepth

InitStall ==
  /\ current = Snapshot(0, DefaultZone)
  /\ zone_chan = << >>
  /\ update_chan = << >>
  /\ file_chan = << >>
  /\ prov = ProviderStart("merge")
  /\ hs = [h \in Tasks |-> FreeHandler]
  /\ tx = 0
  /\ limit = StallUpdates
  /\ acked = {}
  /\ Idle
  /\ boot = "waiting"
  /\ log = << >>
  /\ arg = << >>
  /\ result = << >>

\* the UDP task spawns a handler for a signed UPDATE that adds a.com A 1;
\* the datagrams arrive in a burst, before the first handler has sent its
\* update; the handler tasks are interchangeable, the lowest free one is taken
Spawn(h) ==
  /\ boot \in Listening
  /\ hs[h].kind = "free"
  /\ \A k \in 1..(h - 1) : hs[k].kind # "free"
  /\ \A k \in Tasks : hs[k].pc \notin {"await", "done"}
  /\ UdpReceive(h, Signed(UpdateMsg(ZoneSection, << >>, << AddA >>)))

\* the handlers send their updates in the order they were spawned
EnqueueInOrder(h) ==
  /\ \A k \in 1..(h - 1) : hs[k].pc # "send"
  /\ Enqueue(h)

Swap == boot \in Listening /\ HotSwap

\* the file watcher of the top provider reads the file at start-up; during
\* the burst its notifications are late, they are served once the
\* providers wait on each other
TopFileRead ==
  /\ prov.alive
  /\ tx = 0 \/ MutualWait
  /\ FileRead

TopFile == prov.alive /\ ProviderFile

NextStall ==
  \/ InstallInitial
  \/ BootFails
  \/ BindUdp
  \/ \E h \in Tasks : Spawn(h)
  \/ \E h \in Tasks : EnqueueInOrder(h)
  \/ \E h \in Tasks : FinishUpdate(h)
  \/ Swap
  \/ DynFileCreate
  \/ TopFileRead
  \/ TopFile
  \/ DynFileUpdate
  \/ DynFileSend
  \/ BottomRun
  \/ MergeTop
  \/ MergeBottom
  \/ MergeSend
  \/ MergeUpdate
  \/ MergeForward

\* the runtime does not stop while a task can take a step; a run has no
\* cycle (every request is served once), so every task that can run does run
FairStall == WF_vars(NextStall)

SpecStall == InitStall /\ [][NextStall]_vars /\ FairStall

\* handler h waits on the one-shot of its update
Waiting(h) == hs[h].pc = "await"

\* C32: under fair scheduling every handler that placed an UPDATE on the
\* update channel stops waiting on its one-shot (acknowledged, or dropped
\* and answered ServerFailure); the merge provider and its child never wait
\* on each other forever
C32_UpdateAnswered ==
  \A h \in Tasks : Waiting(h) ~> ~Waiting(h)

\* once the two wait on each other nothing ends the wait
MutualWaitForever == [][MutualWait => MutualWait']_vars

\* the steps of the providers and the handlers without the order the
\* scenario imposes on them
AnyStep ==
  \/ \E h \in Tasks : Enqueue(h) \/ FinishUpdate(h)
  \/ Swap
  \/ prov.alive /\ FileRead
  \/ TopFile
  \/ DynFileUpdate \/ DynFileSend \/ BottomRun
  \/ MergeTop \/ MergeBottom \/ MergeSend \/ MergeUpdate \/ MergeForward

\* with a handler waiting, the scenario stops only where the providers and
\* the handlers can take no step at all
NoFalseStop ==
  ((\E h \in Tasks : Waiting(h)) /\ ENABLED AnyStep) => ENABLED NextStall

\* the two providers wait on each other with handlers waiting on one-shots
\* that are queued behind them
Stalled ==
  /\ MutualWait
  /\ ~ENABLED AnyStep
  /\ Cardinality({h \in Tasks : Waiting(h)}) = 4

\* ------------------------------------------------------------------------
\* AddRecord and the records at other owner names
\* (adns-zone/src/updates.rs)
\* ------------------------------------------------------------------------
\* the step applied an AddRecord that neither meets a conflicting record at
\* its own owner name nor is an SOA turned down for its serial or its data
AddWithoutOwnConflict ==
  /\ last'.kind = "AddRecord"
  /\ ~last'.conflict
  /\ ~last'.soaLower
  /\ ~(last'.action.record.type = "SOA" /\ last'.action.record.data.other)

AddStored ==
  \E i \in 1..Len(records') : records'[i] = StoredAs(last'.action.record)

\* C33: the CNAME exclusivity rule of AddRecord looks at the owner name of
\* the record only: an AddRecord whose owner name holds no conflicting
\* record is not rejected, whatever the other owner names hold
C33_ExclusivityPerName ==
  [][AddWithoutOwnConflict => AddStored]_vars

\* the rule as AddRecord applies it: the record is stored unless the zone
\* holds a conflicting record at any owner name
ExclusivityZoneWide ==
  [][(AddWithoutOwnConflict /\ ~CnameRejected(records, StoredAs(last'.action.record)))
       => AddStored]_vars

\* an AddRecord was rejected although its owner name held no conflicting
\* record: another owner name holds one
RejectedForOtherName ==
  /\ last.kind = "AddRecord"
  /\ ~last.conflict /\ ~last.soaLower /\ ~last.changed
  /\ last.action.record.type = "CNAME"
  /\ \A i \in 1..Len(records) : ~NameEq(records[i].name, last.action.record.name)

\* ------------------------------------------------------------------------
\* DynFileZoneProvider::run and the zones its file provider read
\* (zone_provider/dynfile.rs, zone_provider/file.rs)
\* ------------------------------------------------------------------------
\* an update enqueued after the update id carries an action that deletes
ReversedLater(id) ==
  \E n \in DOMAIN log :
    /\ \E m \in 1..(n - 1) : log[m].id = id
    /\ \E k \in 1..Len(log[n].update.actions) : log[n].update.actions[k].kind # "AddRecord"

\* the records of the acknowledged update of handler h that no later update
\* deletes are stored in the zone
KeepsUpdate(zone, h) ==
  (Updating(h) /\ hs[h].ack = "ok" /\ ~ReversedLater(hs[h].start)) =>
     \A r \in Added(hs[h].update) : HasRecord(zone, r)

\* C34: in the DynFile provider an acknowledged update is never lost: the
\* working copy, and with it every zone emitted and written afterwards,
\* reflects the update unless a later update reverses it; a zone read from
\* the file before the update's write never replaces the working copy
C34_AcknowledgedUpdateKept ==
  (prov.kind = "dynfile" /\ prov.current_zone.some) =>
     \A h \in Handlers : KeepsUpdate(prov.current_zone.zone, h)

\* the working copy is a zone read from the file before the write of an
\* update that has been acknowledged since, and is about to be sent
StaleReloadInstalled ==
  /\ prov.kind = "dynfile"
  /\ prov.pc = "send" /\ prov.ack = 0
  /\ \E h \in Handlers :
       /\ Updating(h) /\ hs[h].ack = "ok"
       /\ hs[h].start \notin prov.current_zone.ids
       /\ hs[h].start \in prov.file.ids

\* ------------------------------------------------------------------------
\* Prerequisites of concurrent UPDATEs (server/respond_update.rs,
\* server/respond.rs, zone_provider/dynfile.rs)
\* ------------------------------------------------------------------------
\* the prerequisite "name a.com is not in use"
NameNotInUse == Empty(SubName, "ALL", "NONE", 0)

\* signed UPDATEs of the zone com that require a.com not to be in use and
\* add a record at a.com
GuardedRequests ==
  { Signed(UpdateMsg(ZoneSection, << NameNotInUse >>, << AddA >>)),
    Signed(UpdateMsg(ZoneSection, << NameNotInUse >>,
             << WireRecord(SubName, "A", "IN", SeedTtl, TypeData("A", 2)) >>)) }

InitGuarded ==
  /\ current = Snapshot(0, DefaultZone)
  /\ zone_chan = << >>
  /\ update_chan = << >>
  /\ file_chan = << >>
  /\ prov = ProviderStart("dynfile")
  /\ hs = [h \in Handlers |-> FreeHandler]
  /\ tx = 0
  /\ limit = ProviderTransactions
  /\ acked = {}
  /\ Idle
  /\ boot = "waiting"
  /\ log = << >>
  /\ arg = << >>
  /\ result = << >>

GuardedReceive(h, req) == boot \in Listening /\ UdpReceive(h, req)

NextGuarded ==
  \/ InstallInitial
  \/ BootFails
  \/ BindUdp
  \/ \E h \in Handlers, req \in GuardedRequests : GuardedReceive(h, req)
  \/ \E h \in Handlers : Enqueue(h)
  \/ \E h \in Handlers : FinishUpdate(h)
  \/ Swap
  \/ DynFileCreate
  \/ TopFile
  \/ prov.alive /\ FileRead
  \/ DynFileUpdate
  \/ DynFileSend

SpecGuarded == InitGuarded /\ [][NextGuarded]_vars

\* the prerequisites of the UPDATE of handler h hold in the zone
PrerequisitesHold(zone, h) == do_respond_update(zone, hs[h].req).err = "none"

\* C35: when the provider applies the actions of an update it acknowledges,
\* the prerequisites of that update hold in the zone the actions are applied
\* to
C35_PrerequisitesHoldWhenApplied ==
  \A h \in Handlers :
    (Updating(h) /\ hs[h].ack = "ok" /\ prov.last.id = hs[h].start) =>
       PrerequisitesHold(prov.last.before, h)

\* of the UPDATEs that require the same name not to be in use and add a
\* record at it, at most one is answered NoError
AtMostOneNoError ==
  Cardinality({h \in Handlers : Updating(h) /\ Answered(h) /\ Rcode(h) = "NoError"}) <= 1

\* the prerequisites held in the snapshot the handler evaluated them on
HeldInSnapshot ==
  \A h \in Handlers : Updating(h) => PrerequisitesHold(hs[h].snap.zone, h)

\* two UPDATEs requiring a.com not to be in use were both answered NoError
BothAcknowledged ==
  /\ \A h \in Handlers : Updating(h) /\ Answered(h) /\ Rcode(h) = "NoError"
  /\ hs[1].req # hs[2].req

\* ------------------------------------------------------------------------
\* Server::run: the zones received from the provider (server/mod.rs)
\* ------------------------------------------------------------------------
\* Server::run awaits the first zone, goes on to bind, and the hot-swap
\* task awaits the next zone: each is a task the runtime keeps scheduling
FairSwap ==
  /\ WF_vars(InstallInitial)
  /\ WF_vars(BootFails)
  /\ WF_vars(BindUdp)
  /\ WF_vars(Swap)

SpecSwap == InitProvider /\ [][NextProvider]_vars /\ FairSwap

\* the zones in the channel are the ones sent after the current one, in the
\* order the provider sent them
ChannelFollowsCurrent ==
  /\ current.ver + Len(zone_chan) = prov.emitted
  /\ \A i \in DOMAIN zone_chan : zone_chan[i].ver = current.ver + i

\* the current zone changes only to the oldest zone of the channel, which
\* is taken off it
InstallsOldest ==
  current' # current =>
    /\ zone_chan # << >>
    /\ current' = Head(zone_chan)
    /\ zone_chan' = Tail(zone_chan)

\* Server::run has returned
Stopped == boot = "stopped"

\* the current zone is the zone the provider sent last
Caught == zone_chan = << >> /\ current.ver = prov.emitted

\* C36: the zones installed as the current zone are the zones the provider
\* sent, in the order sent, none skipped; while the server runs, the
\* current zone eventually is, and stays, the zone sent last, and a full
\* channel of zones does not stay full
C36_InstalledInOrder ==
  /\ []ChannelFollowsCurrent
  /\ [][InstallsOldest]_vars
  /\ <>[](Stopped \/ Caught)
  /\ (Len(zone_chan) = ChanDepth) ~> (Len(zone_chan) < ChanDepth \/ Stopped)

\* three zones were sent and the third is installed, the channel having
\* been full before
C36_Witness ==
  /\ boot \in Listening
  /\ Caught
  /\ current.ver = 3

\* ------------------------------------------------------------------------
\* DeserializeContext::read_name on bytes from the network
\* (adns-proto/src/context.rs, adns-proto/src/name.rs)
\* ------------------------------------------------------------------------
\* the longest label on the wire
MaxLabelBytes == 63

\* n labels of k bytes 'a' and the terminating zero
RECURSIVE WireLabels(_, _)
WireLabels(n, k) ==
  IF n = 0 THEN << 0 >> ELSE << k >> \o [i \in 1..k |-> 97] \o WireLabels(n - 1, k)

\* a pointer to itself
SelfPointer == << 192, 0 >>

\* the label a, then a pointer back to it
LabelThenBack == << 1, 97, 192, 0 >>

\* the name a, then the name b followed by a pointer to the first
Compressed == << 1, 97, 0, 1, 98, 192, 0, 7 >>

\* the name a, a pointer to it, a pointer to that pointer
Chain == << 1, 97, 0, 192, 0, 192, 3, 0 >>

\* two pointers that name each other, and a pointer to the first
Cycle == << 192, 2, 192, 0, 192, 0 >>

\* a pointer past the name read
Forward == << 192, 4, 0, 0, 0 >>

\* messages cut short, length bytes with the top bits 01 and 10, a label
\* that is not UTF-8
Malformed == { << 3, 97 >>, << 192 >>, << 64, 0 >>, << 128, 0 >>, << 1, 255, 0 >> }

ReadPackets ==
  { SelfPointer, LabelThenBack, Compressed, Chain, Cycle, Forward }
    \cup Malformed
    \cup { WireLabels(n, 1) : n \in {MaxNameIndirection, MaxNameIndirection + 1} }
    \cup { WireLabels(n, MaxLabelBytes) : n \in {4, 5} }

\* the name is read at any of the first offsets of the message
ReadInputs ==
  { [packet |-> p, index |-> i] : p \in ReadPackets, i \in 0..7 } \cap
  { a \in [packet : ReadPackets, index : 0..7] : a.index <= Len(a.packet) }

InitRead ==
  /\ ServerInit(0) /\ Idle /\ boot = "tcp" /\ log = << >>
  /\ arg \in ReadInputs
  /\ result = ReadState(arg.index, Len(arg.packet))

\* one iteration of the loop of read_name
Iterate ==
  /\ result.status = "loop"
  /\ result' = ReadIteration(arg.packet, result)
  /\ arg' = arg
  /\ Still

NextRead == Iterate

SpecRead == InitRead /\ [][NextRead]_vars

\* the loop has no await: once entered it runs on
SpecReadFair == SpecRead /\ WF_vars(Iterate)

\* the offset past the first pointer of the name at offset i, or past its
\* terminating zero
RECURSIVE CursorAfter(_, _)
CursorAfter(packet, i) ==
  IF packet[i + 1] \div 64 = 3 THEN i + 2
  ELSE IF packet[i + 1] = 0 THEN i + 1
  ELSE CursorAfter(packet, i + 1 + packet[i + 1])

\* the iteration followed a pointer
FollowedPointer ==
  /\ result'.status = "loop"
  /\ StartByte(arg.packet, result) \div 64 = 3

\* C37: read_name ends on every input; a pointer is followed only to an
\* offset below the one the read started at; at most 32 labels and pointers
\* are taken, one more ends the read with CorruptName; on success the
\* cursor is past the first pointer met, or past the terminating zero
C37_ReadNameTerminates ==
  /\ <>(result.status # "loop")
  /\ [][FollowedPointer => result'.index < arg.index]_vars
  /\ [](result.indirection_count <= MaxNameIndirection)
  /\ [][(result.indirection_count = MaxNameIndirection /\ result'.status = "err"
           /\ ReadIteration(arg.packet, [result EXCEPT !.indirection_count = 0]).status = "loop")
          => result'.err = "CorruptName"]_vars
  /\ [](result.status = "ok" => result.index = CursorAfter(arg.packet, arg.index))

\* the read of a pointer into a cycle of pointers ended with CorruptName
\* after 32 pointers
C37_Witness ==
  /\ arg.packet = Cycle /\ arg.index = 4
  /\ result.status = "err" /\ result.err = "CorruptName"
  /\ result.indirection_count = MaxNameIndirection
  /\ result.continue_index = 6

\* a name read through a pointer left the cursor past the pointer
CursorPastPointer ==
  /\ arg.packet = Compressed /\ arg.index = 3
  /\ result.status = "ok" /\ result.index = 7
  /\ result.out = << << 98 >>, << 97 >> >>

\* C38: parsing bytes from the network returns a packet or an error and
\* never aborts, also for a name whose labels add up to more than 255 bytes
C38_ParseNeverAborts == result.status # "panic"

\* a name of five labels of 63 bytes unwinds read_name at its fifth label
AbortedOnLongName ==
  /\ arg.packet = WireLabels(5, MaxLabelBytes) /\ arg.index = 0
  /\ result.status = "panic"
  /\ Len(result.out) = 4

\* names of at most 255 bytes do not abort
NoAbortWithin255 ==
  result.status = "panic" => arg.packet = WireLabels(5, MaxLabelBytes)

\* ------------------------------------------------------------------------
\* MergeZoneProvider::run: the updates forwarded (zone_provider/merge.rs)
\* ------------------------------------------------------------------------
\* SendUpdates
Directions == {"ToTop", "ToBottom"}

\* Merge over a DynFile top and a File bottom, in either direction
InitForward ==
  /\ current = Snapshot(0, DefaultZone)
  /\ zone_chan = << >>
  /\ update_chan = << >>
  /\ file_chan = << >>
  /\ prov \in {[ProviderStart("merge") EXCEPT !.send_updates = d] : d \in Directions}
  /\ hs = [h \in Handlers |-> FreeHandler]
  /\ tx = 0
  /\ limit = ProviderTransactions
  /\ acked = {}
  /\ Idle
  /\ boot = "waiting"
  /\ log = << >>
  /\ arg = << >>
  /\ result = << >>

ForwardReceive(h, req) == boot \in Listening /\ UdpReceive(h, req)

TopRead == prov.alive /\ FileRead

NextForward ==
  \/ InstallInitial
  \/ BootFails
  \/ BindUdp
  \/ \E h \in Handlers, req \in ProviderRequests : ForwardReceive(h, req)
  \/ \E h \in Handlers : Enqueue(h)
  \/ \E h \in Handlers : FinishUpdate(h)
  \/ Swap
  \/ DynFileCreate
  \/ TopRead
  \/ TopFile
  \/ DynFileUpdate
  \/ DynFileSend
  \/ BottomRun
  \/ MergeTop
  \/ MergeBottom
  \/ MergeSend
  \/ MergeUpdate
  \/ MergeForward

SpecForward == InitForward /\ [][NextForward]_vars

ToTop == prov.send_updates = "ToTop"

\* the channel of updates of the child send_updates selects, and the other
SelectedUpdates == IF ToTop THEN prov.top_updates ELSE prov.bottom_updates

OtherUpdates == IF ToTop THEN prov.bottom_updates ELSE prov.top_updates

\* the updates on their way to the selected child, oldest first: those in
\* its channel, the one the merge provider is sending, those in the
\* channel of the merge provider
InTransit ==
  SelectedUpdates \o (IF prov.mpc = "forward" THEN << prov.upd >> ELSE << >>) \o update_chan

\* entry i of the updates in transit is the update sent on the update
\* channel at its place from the end, with the one-shot its handler awaits
Intact(i) ==
  /\ log[Len(log) - Len(InTransit) + i] =
        [id |-> InTransit[i].id, update |-> InTransit[i].update]
  /\ hs[InTransit[i].response].start = InTransit[i].id
  /\ hs[InTransit[i].response].pc = "await"
  /\ hs[InTransit[i].response].ack = "pending"

\* C39: the merge provider forwards each update to the child send_updates
\* selects and never to the other, in the order of arrival, with its
\* one-shot; when that child has dropped its receiver of updates (a File
\* provider always has) the update is dropped and the requester is answered
\* ServerFailure
C39_ForwardedToSelectedChild ==
  /\ OtherUpdates = << >>
  /\ Len(InTransit) <= Len(log)
  /\ \A i \in DOMAIN InTransit : Intact(i)
  /\ ~ToTop =>
       /\ prov.applied = << >>
       /\ \A h \in Handlers : (Updating(h) /\ Answered(h)) => Rcode(h) = "ServerFailure"

\* with ToBottom over a File provider two updates were dropped and both
\* requesters answered ServerFailure
C39_Witness ==
  /\ ~ToTop /\ ~prov.bottom_open
  /\ Len(log) = 2
  /\ \A h \in Handlers : Updating(h) /\ Answered(h) /\ Rcode(h) = "ServerFailure"

\* with ToTop two updates wait in the channel of the top provider
TwoForwardedToTop ==
  /\ ToTop
  /\ Len(prov.top_updates) = 2
  /\ prov.top_updates[1].id < prov.top_updates[2].id

\* ------------------------------------------------------------------------
\* Zone::merge_from (adns-zone/src/lib.rs)
\* ------------------------------------------------------------------------
\* record lists of a level: none, an address, an address with a TTL below
\* the minimum followed by a second address, an alias
MergeRecords(owner) ==
  { << >>,
    << Record(owner, SeedTtl, TypeData("A", 1)) >>,
    << Record(owner, InputTtl, TypeData("A", 2)), Record(owner, SeedTtl, TypeData("A", 1)) >>,
    << Record(owner, SeedTtl, TypeData("CNAME", 1)) >> }

\* the zones merged into: authoritative, with an SOA, nameservers and a key
MergedInto ==
  { [records |-> root, soa |-> 1, nameservers |-> << 1 >>, authoritative |-> TRUE,
     zones |-> [k \in keys |-> Level(recs, 1, << 1 >>, TRUE)],
     tsig_keys |-> [k \in {KeyName} |-> KeySecret],
     allow_md5_tsig |-> TRUE, class |-> "IN"] :
       root \in MergeRecords(EmptyName), recs \in MergeRecords(ApexName),
       keys \in {{}, {ApexName}, {ApexName, NetName}} }

\* the zones merged from: other settings throughout
MergedFrom ==
  { [records |-> root, soa |-> 2, nameservers |-> << 2 >>, authoritative |-> FALSE,
     zones |-> [k \in keys |-> Level(recs, 2, << 2 >>, FALSE)],
     tsig_keys |-> [k \in {"k2"} |-> "secret2"],
     allow_md5_tsig |-> FALSE, class |-> "CH"] :
       root \in MergeRecords(EmptyName), recs \in MergeRecords(ApexName),
       keys \in {{}, {ApexName}, {NetName}} }

MergeInputs == [self : MergedInto, other : MergedFrom]

InitMergeFrom == Chosen /\ arg \in MergeInputs

MergeFrom ==
  /\ result = << >>
  /\ result' = [zone |-> merge_from(arg.self, arg.other)]
  /\ arg' = arg
  /\ Still

NextMergeFrom == MergeFrom

SpecMergeFrom == InitMergeFrom /\ [][NextMergeFrom]_vars

\* recs with each record of `added` applied in order as an AddRecord
AddedInOrder(name, recs, added) ==
  StepThrough(name, recs, [i \in 1..Len(added) |-> AddRecordAction(added[i])], Len(added))

\* the fields of a zone or subzone other than its records and subzones
Settings(z) == [f \in DOMAIN z \ {"records", "zones"} |-> z[f]]

\* C40: after a.merge_from(b) the subzone apexes are those of a and of b;
\* the root records are a's with b's applied in order as AddRecord; a
\* subzone of both has a's records with b's applied in order as AddRecord;
\* a subzone of b alone is inserted as it is; the soa, nameservers,
\* tsig_keys, authoritative, class and allow_md5_tsig of a are kept
C40_MergeFrom ==
  result # << >> =>
    /\ DOMAIN result.zone.zones = DOMAIN arg.self.zones \cup DOMAIN arg.other.zones
    /\ result.zone.records = AddedInOrder(EmptyName, arg.self.records, arg.other.records)
    /\ \A k \in DOMAIN arg.self.zones \cap DOMAIN arg.other.zones :
         /\ result.zone.zones[k].records =
              AddedInOrder(k, arg.self.zones[k].records, arg.other.zones[k].records)
         /\ Settings(result.zone.zones[k]) = Settings(arg.self.zones[k])
    /\ \A k \in DOMAIN arg.other.zones \ DOMAIN arg.self.zones :
         result.zone.zones[k] = arg.other.zones[k]
    /\ \A k \in DOMAIN arg.self.zones \ DOMAIN arg.other.zones :
         result.zone.zones[k] = arg.self.zones[k]
    /\ Settings(result.zone) = Settings(arg.self)

\* a zone with the subzones com and net took a zone with the subzone com:
\* the address of com with a TTL of 30 is stored in com with the minimum
\* TTL, the alias at the root was turned down
C40_Witness ==
  /\ result # << >>
  /\ DOMAIN arg.self.zones = {ApexName, NetName}
  /\ DOMAIN arg.other.zones = {ApexName}
  /\ arg.self.records = << Record(EmptyName, SeedTtl, TypeData("A", 1)) >>
  /\ arg.other.records = << Record(EmptyName, SeedTtl, TypeData("CNAME", 1)) >>
  /\ result.zone.records = arg.self.records
  /\ arg.self.zones[ApexName].records = << >>
  /\ Len(arg.other.zones[ApexName].records) = 2
  /\ result.zone.zones[ApexName].records =
       << Record(ApexName, 60, TypeData("A", 2)), Record(ApexName, SeedTtl, TypeData("A", 1)) >>

\* a subzone of the other zone alone keeps its records as they are
InsertedUnchanged ==
  /\ result # << >>
  /\ DOMAIN arg.self.zones = {ApexName}
  /\ DOMAIN arg.other.zones = {NetName}
  /\ Len(arg.other.zones[NetName].records) = 2
  /\ result.zone.zones[NetName].records[1].ttl = InputTtl
====
